---- MODULE Spec2Model ----
(***************************************************************************)
(* Model of the simulation core of MediocreBONK: the pooled EntityManager  *)
(* (ECS/EntityManager.h, ECS/Entity.h) and the deferred event bus          *)
(* (Managers/EventManager.h).                                              *)
(*                                                                         *)
(* A pointer to an entity is modelled by the entity's id: the manager    *)
(* allocates one Entity object per id and never re-allocates an id.        *)
(* Simulated time is counted in quarter seconds.                           *)
(***************************************************************************)
EXTENDS Integers, Sequences, FiniteSets, TLC

(***************************************************************************)
(* Bounds of the model and constants of the program                        *)
(***************************************************************************)

\* entity cap given to the constructor in the pooling specification
MaxEntitiesPool == 2

\* EntityManager(size_t maxEntities = 500): the cap the game runs with
DefaultMaxEntities == 500

\* entities alive at a time in the compaction specification
MaxActiveCompact == 2

\* fresh identities are allocated while nextId is below this bound
MaxId == 12

\* cleanupInterval(0.5f): two quarter seconds
CleanupInterval == 2

\* the frame times passed to update, in quarter seconds: shorter than the
\* cleanup interval, and long enough to reach it from a timer of zero
FrameTimes == 1..CleanupInterval

\* "if (inactiveCount < 10) return;"
CleanupThreshold == 10

\* "const size_t MAX_XP_GEMS = 150;"
MaxXPGems == 150

\* gems spawned in one run, the XP values a gem is spawned with, the largest
\* value merging builds up and the largest XP total followed
MaxGems == 2

XPValues == 1..2

MaxGemValue == 2

MaxExperience == 3

\* entities other than gems created in one run of the XP specification
MaxBystanders == 1

\* largest maxHealth a Health is constructed with or set to, largest damage
\* and heal amount, and the onDeathCallback invocations followed
MaxHealthValue == 6

MaxAmount == 3

MaxDeathCalls == 3

\* State objects constructed in one run
MaxStates == 4

\* the null pointer
Null == -1

\* listeners registered in the event specification
MaxListeners == 2

\* EventData objects allocated in the event specification
MaxEvents == 3

\* Component objects constructed in the component specification
MaxInstances == 4

\* the event types the model uses, two of GameEventType
EventTypes == {"BuffApplied", "PlayerLevelUp"}

\* const EventData* data = nullptr
NullData == 0

\* entities handed to the spatial grid in the grid specification
MaxGridEntities == 2

\* SpatialGrid(cellSize): the cell size, in model length units (the game
\* uses 100 px; the model's unit is half a cell)
CellSize == 2

\* largest x coordinate of a position, in model length units
MaxCoord == 2

\* largest y coordinate of a position, in model length units
MaxCoordY == 1

\* largest radius of a query
MaxQueryRadius == 1

\* the colliders of the grid specification: a circle of radius 1 or 2, a
\* rectangle of width and height 2 or 4
GridColliderSizes == 1..2

\* enemies spawned in the collision specification
MaxEnemies == 2

\* projectiles fired in the collision specification
MaxProjectiles == 1

\* largest piercing of a weapon
MaxPiercing == 2

\* maxHealth of an enemy, in hits of a projectile
EnemyMaxHealth == 2

\* maxHealth of the player, in contact damages of an enemy
PlayerMaxHealth == 2

\* the x coordinates entities are spawned at and moved to by physics: at
\* the same coordinate two circles overlap, at different ones they do not
CollisionCoords == {0, 4}

\* the x coordinates enemies are spawned at and moved to in the separation
\* specification
SeparationCoords == 0..4

\* largest x coordinate of the other collider of an intersects call, in
\* model length units of 5 px
MaxProbeCoord == 5

\* largest y coordinate of the other collider of an intersects call
MaxProbeCoordY == 1

\* the bits of Collider::layer and Collider::mask that callers set
LayerBits == {0, 1}

\* subscribe calls of the token specification
MaxTokens == 4

\* entities with the tag of a target in the projectile specification
MaxTargets == 3

\* collider entities of the pair specification
MaxPairEntities == 3

\* playerDamageInterval(0.5f): two quarter seconds
PlayerDamageInterval == 2

\* cullingRange(1400.f), in model length units of 50 px
CullingRange == 28

\* the + 50.f of the search radius of a query, in model length units
SearchMargin == 1

\* tags the callers give to entities ("" is the tag of a bare entity)
Tags == {"Enemy", "PlayerProjectile", "Player", "XPGem"}

\* component kinds attached by the callers
ComponentKinds == {"Transform", "Health", "Projectile"}

\* what a caller does with the entity createEntity returned:
\* "Enemy" the enemy factory, "PlayerProjectile" the weapon system
Kinds == {"Enemy", "PlayerProjectile"}

VARIABLES
    entities,       \* EntityManager::entities, in storage order
    nextId,         \* EntityManager::nextId
    maxEntities,    \* EntityManager::maxEntities
    cleanupTimer,   \* EntityManager::cleanupTimer
    tagCache,       \* EntityManager::tagCache
    tagCacheDirty,  \* EntityManager::tagCacheDirty
    ret,            \* pointer returned by the most recent createEntity call
    createPath,     \* branch taken by that call: "fresh", "reused", "exhausted"
    lastUpdate,     \* what the most recent update did (cf. the Logger line)
    tickChanged,    \* an entity was created or destroyed since the last update
    lastDestroyed,  \* entity destroyEntity deactivated last since the last update,
                    \* Null if none or if it was reactivated since
    allocated,      \* the ids createEntity has given to new entities: ever, and
                    \* since the last clear()
    listeners,      \* EventManager::listeners: event type -> registrations in order
    nextListenerId, \* EventManager::nextListenerId
    eventQueue,     \* EventManager::eventQueue
    queueCap,       \* eventQueue.capacity()
    nextEvent,      \* serial number of the next EventData object allocated
    pc,             \* where the event manager is: "idle", "emit", "drain",
                    \* "drainEmit", "crashed"
    emit,           \* the range-for of the emit in progress
    drain,          \* the range-for of the processEvents in progress
    lastCall,       \* the top-level call in progress or completed last
    emitSnapshot,   \* registrations of the emitted type when the emit began
    emitLog,        \* listeners invoked by the emit in progress or completed last
    emitUnsub,      \* a listener called unsubscribe during that emit
    delivered,      \* invocations made by the top-level call, in order
    expected,       \* invocations a processEvents call owes, in order
    queuedInDrain,  \* events queued by listeners during the drain
    unsubscribedPending, \* <<listener, type, payload>>: the listener was removed
                    \* from the type between two drains while the event was queued
    placed,         \* position and collider of the entities handed to SpatialGrid
    grid,           \* SpatialGrid::grid: cell key -> entities, in insertion order
    lastQuery,      \* the most recent SpatialGrid::query call and its result
    body,           \* per entity id: Transform position, Collider, Health, Projectile
    playerDamageCooldown, \* CollisionSystem::playerDamageCooldown
    sincePlayerDamage, \* simulated time since the player-enemy pass last applied
                    \* damage, Null before the first application
    everDamaged,    \* <<projectile, target>> pairs the projectile pass has damaged
    lastPass,       \* what the most recent CollisionSystem::update did
    tick,           \* where GameState::update is, what it has run and queued
    components,     \* Entity::components of one entity: <<kind, instance>> entries
    nextInstance,   \* serial number of the next Component object constructed
    onAttachCalls,  \* per Component object: the onAttach calls made on it
    onDetachCalls,  \* per Component object: the onDetach calls made on it
    lastAdd,        \* the most recent addComponent call and what it returned
    probe,          \* the most recent Collider::intersects call and its result
    lastToken,      \* the most recent subscribe, unsubscribe or clearAll call made
                    \* between emits, the listeners before it, the tokens returned
    pickup,         \* per XP gem id: XPPickup::xpValue and readyForPickup
    experience,     \* the XP the player's Experience component was given
    credits,        \* per XP gem id: how often collectXPPickups credited it
    health,         \* one Health component: currentHealth and maxHealth
    deathCalls,     \* invocations of that component's onDeathCallback
    everDead,       \* its currentHealth was 0 or less after some call
    everNaN,        \* its currentHealth was NaN after some call
    states,         \* StateMachine::states, bottom first
    entered,        \* per State object: the enter() and exit() calls made
                    \* on it, in order
    nextState,      \* serial number of the next State object constructed
    lastDelegated   \* the most recent update/render/handleInput call, the
                    \* stack it found and the State objects it reached

emVars == <<entities, nextId, maxEntities, cleanupTimer, tagCache, tagCacheDirty,
            ret, createPath, lastUpdate, tickChanged, lastDestroyed, allocated>>

evVars == <<listeners, nextListenerId, eventQueue, queueCap, nextEvent, pc, emit,
            drain, lastCall, emitSnapshot, emitLog, emitUnsub, delivered, expected,
            queuedInDrain, unsubscribedPending>>

sgVars == <<placed, grid, lastQuery>>

csVars == <<body, playerDamageCooldown, sincePlayerDamage, everDamaged, lastPass>>

tkVars == <<tick>>

enVars == <<components, nextInstance, onAttachCalls, onDetachCalls, lastAdd>>

coVars == <<probe>>

toVars == <<lastToken>>

xpVars == <<pickup, experience, credits>>

hpVars == <<health, deathCalls, everDead, everNaN>>

smVars == <<states, entered, nextState, lastDelegated>>

vars == <<emVars, evVars, sgVars, csVars, tkVars, enVars, coVars, toVars, xpVars, hpVars, smVars>>

\* what the operations of one class leave alone
nonEmVars == <<evVars, sgVars, csVars, tkVars, enVars, coVars, toVars, xpVars, hpVars, smVars>>

nonEvVars == <<emVars, sgVars, csVars, tkVars, enVars, coVars, toVars, xpVars, hpVars, smVars>>

nonSgVars == <<emVars, evVars, csVars, tkVars, enVars, coVars, toVars, xpVars, hpVars, smVars>>

\* what EntityManager::update leaves alone besides the XPPickup components
nonEmXpVars == <<evVars, sgVars, csVars, tkVars, enVars, coVars, toVars, hpVars, smVars>>

\* the variables of the other classes and of the event histories
nonTokenVars == <<emVars, sgVars, csVars, tkVars, enVars, coVars, xpVars, hpVars, smVars>>

\* what the calls on a Health component leave alone
nonHpVars == <<emVars, evVars, sgVars, csVars, tkVars, enVars, coVars, toVars, xpVars, smVars>>

\* what the calls on the StateMachine leave alone
nonSmVars == <<emVars, evVars, sgVars, csVars, tkVars, enVars, coVars, toVars, xpVars, hpVars>>

(***************************************************************************)
(* Entity                                                                  *)
(***************************************************************************)

\* Entity(uint64_t id) : id(id), active(true) {}; tag "", no component.
\* expired: the lifetime of the entity's Projectile component has run out.
Entity(id) ==
    [id |-> id, active |-> TRUE, tag |-> "", comps |-> {}, expired |-> FALSE]

IsActive(e) == e.active

HasComponent(e, k) == k \in e.comps

Ids(ents) == {ents[i].id : i \in DOMAIN ents}

ActiveIds(ents) == {ents[i].id : i \in {j \in DOMAIN ents : IsActive(ents[j])}}

InactiveIds(ents) == Ids(ents) \ ActiveIds(ents)

\* the factory code that runs on the pointer createEntity returned:
\* addComponent overwrites a component of the same kind and keeps the others
Configure(e, kind) ==
    CASE kind = "Enemy" ->
            [e EXCEPT !.tag = "Enemy", !.comps = @ \cup {"Transform", "Health"}]
      [] kind = "PlayerProjectile" ->
            [e EXCEPT !.tag = "PlayerProjectile",
                      !.comps = @ \cup {"Transform", "Projectile"},
                      !.expired = FALSE]
      [] kind = "XPGem" ->
            [e EXCEPT !.tag = "XPGem",
                      !.comps = @ \cup {"Transform", "XPPickup", "Collider"},
                      !.expired = FALSE]
      [] OTHER -> e

\* Entity::update -> Projectile::update, XPPickup::update: lifetime -= dt;
\* when it is used up the component deactivates its owner.  `expires` says
\* whether this frame uses up a lifetime that was still positive.
UpdateEntity(e, expires) ==
    IF /\ IsActive(e)
       /\ (HasComponent(e, "Projectile") \/ HasComponent(e, "XPPickup"))
       /\ (e.expired \/ expires)
    THEN [e EXCEPT !.active = FALSE, !.expired = TRUE]
    ELSE e

\* Entity::update -> XPPickup::update of every entity of ents: an inactive
\* entity is not updated, a gem whose lifetime is used up is deactivated
\* and returns, any other gem sets readyForPickup by its distance to the
\* player.  inRange: the gems within pickupRange of the player this frame.
PickupsAfterUpdate(pk, ents, expiring, inRange) ==
    [id \in DOMAIN pk |->
        IF \E i \in DOMAIN ents :
              /\ ents[i].id = id
              /\ IsActive(ents[i])
              /\ HasComponent(ents[i], "XPPickup")
              /\ ~(ents[i].expired \/ id \in expiring)
        THEN [pk[id] EXCEPT !.readyForPickup = (id \in inRange)]
        ELSE pk[id]]

(***************************************************************************)
(* EntityManager                                                           *)
(***************************************************************************)

\* std::count_if(..., isActive)
GetEntityCount(ents) == Cardinality({i \in DOMAIN ents : IsActive(ents[i])})

GetTotalEntityCount(ents) == Len(ents)

\* std::find_if(..., !isActive): index of the first inactive entity, 0 for end()
FirstInactive(ents) ==
    IF \E i \in DOMAIN ents : ~IsActive(ents[i])
    THEN CHOOSE i \in DOMAIN ents :
            /\ ~IsActive(ents[i])
            /\ \A j \in 1..(i - 1) : IsActive(ents[j])
    ELSE 0

\* a wrong pool scan: takes the first entity whatever its active flag
MutFirstAny(ents) == IF Len(ents) > 0 THEN 1 ELSE 0

\* the scan createEntity uses at the cap
PoolScan(ents) == FirstInactive(ents)

\* createEntity with the cap test dropped: always allocates
MutCreateNoCap(ents, max, nid, dirty) ==
    [entities |-> Append(ents, Entity(nid)), nextId |-> nid + 1,
     dirty |-> TRUE, ret |-> nid, path |-> "fresh"]

\* a createEntity that gives the new entity the id of the newest one
MutCreateSameId(ents, max, nid, dirty) ==
    IF Len(ents) >= max
    THEN LET i == PoolScan(ents) IN
         IF i # 0
         THEN [entities |-> [ents EXCEPT ![i].active = TRUE], nextId |-> nid,
               dirty |-> dirty, ret |-> ents[i].id, path |-> "reused"]
         ELSE [entities |-> ents, nextId |-> nid,
               dirty |-> dirty, ret |-> Null, path |-> "exhausted"]
    ELSE [entities |-> Append(ents, Entity(IF nid > 0 THEN nid - 1 ELSE nid)),
          nextId |-> nid + 1, dirty |-> TRUE,
          ret |-> IF nid > 0 THEN nid - 1 ELSE nid, path |-> "fresh"]

\* a createEntity whose cap test lets one more entity in
MutCreateCapOffByOne(ents, max, nid, dirty) ==
    IF Len(ents) > max
    THEN LET i == PoolScan(ents) IN
         IF i # 0
         THEN [entities |-> [ents EXCEPT ![i].active = TRUE], nextId |-> nid,
               dirty |-> dirty, ret |-> ents[i].id, path |-> "reused"]
         ELSE [entities |-> ents, nextId |-> nid,
               dirty |-> dirty, ret |-> Null, path |-> "exhausted"]
    ELSE [entities |-> Append(ents, Entity(nid)), nextId |-> nid + 1,
          dirty |-> TRUE, ret |-> nid, path |-> "fresh"]

\* createEntity(): the manager state after the call, the pointer returned
\* and the branch taken
CreateEntityResult(ents, max, nid, dirty) ==
    IF Len(ents) >= max
    THEN LET i == PoolScan(ents) IN
         IF i # 0
         THEN [entities |-> [ents EXCEPT ![i].active = TRUE], nextId |-> nid,
               dirty |-> dirty, ret |-> ents[i].id, path |-> "reused"]
         ELSE [entities |-> ents, nextId |-> nid,
               dirty |-> dirty, ret |-> Null, path |-> "exhausted"]
    ELSE [entities |-> Append(ents, Entity(nid)), nextId |-> nid + 1,
          dirty |-> TRUE, ret |-> nid, path |-> "fresh"]

\* getEntity(id): index of the first entity with that id, 0 for nullptr
GetEntityIndex(ents, id) ==
    IF \E i \in DOMAIN ents : ents[i].id = id
    THEN CHOOSE i \in DOMAIN ents :
            /\ ents[i].id = id
            /\ \A j \in 1..(i - 1) : ents[j].id # id
    ELSE 0

GetEntity(ents, id) ==
    IF GetEntityIndex(ents, id) # 0 THEN ents[GetEntityIndex(ents, id)].id ELSE Null

\* the ids of a sequence of entities, in order
RECURSIVE IdSeq(_)
IdSeq(ents) ==
    IF ents = <<>> THEN <<>> ELSE <<Head(ents).id>> \o IdSeq(Tail(ents))

SeqToSet(s) == {s[i] : i \in DOMAIN s}

\* the rebuild loop of update: tagCache[tag].push_back for every active
\* entity with a non-empty tag, in storage order
RebuildTagCache(ents) ==
    [t \in Tags |-> IdSeq(SelectSeq(ents, LAMBDA e : IsActive(e) /\ e.tag # "" /\ e.tag = t))]

\* a destroyEntity that forgets to mark the cache dirty
MutDestroyKeepsCache(ents, id, dirty) ==
    LET i == GetEntityIndex(ents, id) IN
    [entities |-> IF i # 0 THEN [ents EXCEPT ![i].active = FALSE] ELSE ents,
     dirty |-> dirty, found |-> i # 0]

\* destroyEntity(id): setActive(false) on the entity getEntity finds, and the
\* cache marked dirty; nothing when there is no such entity
DestroyEntityResult(ents, id, dirty) ==
    LET i == GetEntityIndex(ents, id) IN
    [entities |-> IF i # 0 THEN [ents EXCEPT ![i].active = FALSE] ELSE ents,
     dirty |-> (dirty \/ i # 0), found |-> i # 0]

\* getEntitiesByTag: the cached list, never recomputed
GetEntitiesByTag(t) == tagCache[t]

\* getEntitiesWithComponent<T>: scan of the active entities
GetEntitiesWithComponent(ents, k) ==
    IdSeq(SelectSeq(ents, LAMBDA e : IsActive(e) /\ HasComponent(e, k)))

\* getEntitiesWithComponents<T1, T2>: scan of the active entities
GetEntitiesWithComponents(ents, k1, k2) ==
    IdSeq(SelectSeq(ents, LAMBDA e : IsActive(e) /\ HasComponent(e, k1) /\ HasComponent(e, k2)))

\* a cleanup that erases but forgets to mark the cache dirty
MutCleanupKeepsCache(ents, dirty) ==
    LET inactiveCount == Len(ents) - GetEntityCount(ents) IN
    IF inactiveCount < CleanupThreshold
    THEN [entities |-> ents, dirty |-> dirty, erased |-> 0]
    ELSE [entities |-> SelectSeq(ents, IsActive), dirty |-> dirty,
          erased |-> inactiveCount]

\* a cleanup that erases whenever anything is inactive
MutCleanupNoThreshold(ents, dirty) ==
    LET inactiveCount == Len(ents) - GetEntityCount(ents)
        kept == SelectSeq(ents, IsActive) IN
    [entities |-> kept, dirty |-> (dirty \/ Len(kept) # Len(ents)),
     erased |-> Len(ents) - Len(kept)]

\* a cleanup whose removal does not keep the order of the survivors
MutCleanupUnstable(ents, dirty) ==
    LET inactiveCount == Len(ents) - GetEntityCount(ents) IN
    IF inactiveCount < CleanupThreshold
    THEN [entities |-> ents, dirty |-> dirty, erased |-> 0]
    ELSE LET kept == SelectSeq(ents, IsActive) IN
         [entities |-> [i \in DOMAIN kept |-> kept[Len(kept) + 1 - i]],
          dirty |-> (dirty \/ Len(kept) # Len(ents)),
          erased |-> Len(ents) - Len(kept)]

\* cleanupInactiveEntities(): erase-remove of the inactive entities once at
\* least CleanupThreshold of them exist; marks the cache dirty if any was erased
CleanupInactiveEntities(ents, dirty) ==
    LET inactiveCount == Len(ents) - GetEntityCount(ents) IN
    IF inactiveCount < CleanupThreshold
    THEN [entities |-> ents, dirty |-> dirty, erased |-> 0]
    ELSE LET kept == SelectSeq(ents, IsActive) IN
         [entities |-> kept, dirty |-> (dirty \/ Len(kept) # Len(ents)),
          erased |-> Len(ents) - Len(kept)]

\* no update has completed since the last other operation
NoUpdate == [done |-> FALSE, ran |-> FALSE, erased |-> 0, erasedCached |-> FALSE,
             afterChange |-> FALSE, destroyed |-> Null]

(***************************************************************************)
(* Operations of the EntityManager                                         *)
(***************************************************************************)

EMInit(max) ==
    /\ entities = <<>>
    /\ nextId = 0
    /\ maxEntities = max
    /\ cleanupTimer = 0
    /\ tagCache = [t \in Tags |-> <<>>]
    /\ tagCacheDirty = TRUE
    /\ ret = Null
    /\ createPath = "none"
    /\ lastUpdate = NoUpdate
    /\ tickChanged = FALSE
    /\ lastDestroyed = Null
    /\ allocated = [ever |-> {}, sinceClear |-> {}]

\* createEntity() followed by the caller's set-up of the returned entity
CreateEntity(kind) ==
    LET r == CreateEntityResult(entities, maxEntities, nextId, tagCacheDirty)
        i == GetEntityIndex(r.entities, r.ret) IN
    /\ r.path = "fresh" => nextId < MaxId
    /\ entities' = IF r.ret = Null THEN r.entities
                   ELSE [r.entities EXCEPT ![i] = Configure(@, kind)]
    /\ nextId' = r.nextId
    /\ tagCacheDirty' = r.dirty
    /\ ret' = r.ret
    /\ createPath' = r.path
    /\ lastUpdate' = NoUpdate
    /\ tickChanged' = (tickChanged \/ r.ret # Null)
    /\ lastDestroyed' = IF r.ret = lastDestroyed THEN Null ELSE lastDestroyed
    /\ allocated' = IF r.path = "fresh"
                    THEN [ever |-> allocated.ever \cup {r.ret},
                          sinceClear |-> allocated.sinceClear \cup {r.ret}]
                    ELSE allocated
    /\ UNCHANGED <<maxEntities, cleanupTimer, tagCache, nonEmVars>>

\* destroyEntity, by id or by pointer: logical removal
DestroyEntity(id) ==
    LET r == DestroyEntityResult(entities, id, tagCacheDirty) IN
    /\ entities' = r.entities
    /\ tagCacheDirty' = r.dirty
    /\ ret' = Null
    /\ createPath' = "none"
    /\ lastUpdate' = NoUpdate
    /\ tickChanged' = (tickChanged \/ r.found)
    /\ lastDestroyed' = IF r.found THEN id ELSE lastDestroyed
    /\ UNCHANGED <<nextId, maxEntities, cleanupTimer, tagCache, allocated,
                   nonEmVars>>

\* a system deactivates an entity it holds directly: entity->setActive(false)
Deactivate(id) ==
    LET i == GetEntityIndex(entities, id) IN
    /\ i # 0
    /\ entities' = [entities EXCEPT ![i].active = FALSE]
    /\ ret' = Null
    /\ createPath' = "none"
    /\ lastUpdate' = NoUpdate
    /\ UNCHANGED <<nextId, maxEntities, cleanupTimer, tagCache, tagCacheDirty,
                   tickChanged, lastDestroyed, allocated, nonEmVars>>

\* an update that rebuilds the tag cache on every tick
MutAlwaysRebuild(cache, ents, dirty) == RebuildTagCache(ents)

\* the tag cache update leaves: rebuilt from storage if tagCacheDirty
TagCacheAfterUpdate(cache, ents, dirty) ==
    IF dirty THEN RebuildTagCache(ents) ELSE cache

\* update(dt): periodic compaction, lazy cache rebuild, then every active
\* entity's update.  expiring: the entities whose projectile or gem lifetime
\* this frame uses up; inRange: the gems within pickup range of the player.
UpdateAll(dt, expiring, inRange) ==
    LET timer == cleanupTimer + dt
        ran == timer >= CleanupInterval
        c == IF ran THEN CleanupInactiveEntities(entities, tagCacheDirty)
             ELSE [entities |-> entities, dirty |-> tagCacheDirty, erased |-> 0]
    IN
    /\ cleanupTimer' = IF ran THEN 0 ELSE timer
    /\ tagCache' = TagCacheAfterUpdate(tagCache, c.entities, c.dirty)
    /\ tagCacheDirty' = FALSE
    /\ entities' = [i \in DOMAIN c.entities |->
                        UpdateEntity(c.entities[i], c.entities[i].id \in expiring)]
    /\ ret' = Null
    /\ createPath' = "none"
    /\ lastUpdate' = [done |-> TRUE, ran |-> ran, erased |-> c.erased,
                      erasedCached |-> \E t \in Tags :
                            ~(SeqToSet(tagCache[t]) \subseteq Ids(c.entities)),
                      afterChange |-> tickChanged,
                      destroyed |-> lastDestroyed]
    /\ tickChanged' = FALSE
    /\ lastDestroyed' = Null
    /\ pickup' = PickupsAfterUpdate(pickup, c.entities, expiring, inRange)
    /\ UNCHANGED <<nextId, maxEntities, allocated, experience, credits, nonEmXpVars>>

\* update(dt) of a frame in which no gem is within pickup range
Update(dt, expiring) == UpdateAll(dt, expiring, {})

\* clear(): every entity is destroyed and the id counter starts over; the
\* tag cache and its dirty flag are left as they are
Clear ==
    /\ entities' = <<>>
    /\ nextId' = 0
    /\ allocated' = [allocated EXCEPT !.sinceClear = {}]
    /\ ret' = Null
    /\ createPath' = "none"
    /\ lastUpdate' = NoUpdate
    /\ lastDestroyed' = Null
    /\ UNCHANGED <<maxEntities, cleanupTimer, tagCache, tagCacheDirty, tickChanged,
                   nonEmVars>>

\* the entities whose Projectile lifetime is still running
LiveProjectiles(ents) ==
    {ents[i].id : i \in {j \in DOMAIN ents :
        IsActive(ents[j]) /\ HasComponent(ents[j], "Projectile") /\ ~ents[j].expired}}

(***************************************************************************)
(* EventManager                                                            *)
(*                                                                         *)
(* emit and processEvents iterate a std::vector with a range-for: begin    *)
(* and end are taken once, when the loop starts.  A listener is a callback *)
(* of the rest of the program; what it does when invoked is an input:      *)
(* nothing, a queueEvent call or an unsubscribe call.  The loops are       *)
(* therefore modelled step by step, one listener invocation per step.      *)
(* Using an iterator that a vector operation has invalidated is undefined  *)
(* behaviour; its outcomes are a nondeterministic choice.                  *)
(***************************************************************************)

\* what a listener may do while it runs
ListenerCalls ==
    {[op |-> "none"]}
    \cup {[op |-> "queueEvent", type |-> t] : t \in EventTypes}
    \cup {[op |-> "unsubscribe", type |-> t, id |-> id] :
            t \in EventTypes, id \in 0..(MaxListeners - 1)}

\* listeners[eventType].emplace_back(listenerId, listener)
SubscribeResult(ls, t, id) == [ls EXCEPT ![t] = Append(@, id)]

\* an unsubscribe that leaves the registration in place
MutUnsubscribeKeeps(ls, t, id) == ls

\* erase(remove_if(first == listenerId)) on listeners[eventType]
UnsubscribeResult(ls, t, id) ==
    [ls EXCEPT ![t] = SelectSeq(@, LAMBDA x : x # id)]

\* the slots the running loop still walks after an erase: the live elements
\* moved to the front, and behind them what was left in the slots
RawAfterErase(raw, live) == live \o SubSeq(raw, Len(live) + 1, Len(raw))

\* capacities a vector of this size and capacity may grow to when full
\* (doubling, or growth by half)
GrownCapacities(size, cap) ==
    {IF 2 * cap > size THEN 2 * cap ELSE size + 1,
     IF cap + (cap \div 2) > size THEN cap + (cap \div 2) ELSE size + 1}

NoEmit == [type |-> "", data |-> NullData, idx |-> 0, end |-> 0, raw |-> <<>>]

NoDrain == [idx |-> 0, end |-> 0, stale |-> FALSE, snapshot |-> <<>>,
            reentered |-> FALSE]

EVInit ==
    /\ listeners = [t \in EventTypes |-> <<>>]
    /\ nextListenerId = 0
    /\ eventQueue = <<>>
    /\ queueCap = 0
    /\ nextEvent = 1
    /\ pc = "idle"
    /\ emit = NoEmit
    /\ drain = NoDrain
    /\ lastCall = "none"
    /\ emitSnapshot = <<>>
    /\ emitLog = <<>>
    /\ emitUnsub = FALSE
    /\ delivered = <<>>
    /\ expected = <<>>
    /\ queuedInDrain = {}
    /\ unsubscribedPending = {}

\* subscribe(eventType, listener), called between drains
SubscribeCall(t) ==
    /\ pc = "idle"
    /\ listeners' = SubscribeResult(listeners, t, nextListenerId)
    /\ nextListenerId' = nextListenerId + 1
    /\ lastToken' = [op |-> "subscribe", type |-> t, token |-> nextListenerId,
                     before |-> listeners, earlier |-> lastToken.returned,
                     returned |-> lastToken.returned \cup {nextListenerId}]
    /\ UNCHANGED <<eventQueue, queueCap, nextEvent, pc, emit, drain, lastCall,
                   emitSnapshot, emitLog, emitUnsub, delivered, expected,
                   queuedInDrain,
                   unsubscribedPending, nonTokenVars>>

NoToken == [op |-> "none", type |-> "", token |-> Null,
            before |-> [t \in EventTypes |-> <<>>], earlier |-> {}, returned |-> {}]

TOInit == lastToken = NoToken

\* no gem spawned, no XP given
XPInit ==
    /\ pickup = <<>>
    /\ experience = 0
    /\ credits = <<>>

\* Health(maxHealth): the component as constructed.  Health values are whole
\* numbers; isNaN says that currentHealth holds the float NaN, and
\* currentHealth is then kept at 0.
HealthOf(maxHealth) ==
    [currentHealth |-> maxHealth, isNaN |-> FALSE, maxHealth |-> maxHealth,
     invulnerable |-> FALSE]

HPInit ==
    /\ health = HealthOf(EnemyMaxHealth)
    /\ deathCalls = 0
    /\ everDead = FALSE
    /\ everNaN = FALSE

SMInit ==
    /\ states = <<>>
    /\ entered = <<>>
    /\ nextState = 1
    /\ lastDelegated = [op |-> "none"]

\* the subscribe calls of a program that registers MaxListeners listeners
Subscribe(t) == nextListenerId < MaxListeners /\ SubscribeCall(t)

\* a clearAll that starts the listener ids anew
MutClearAllRestartsIds(next) == 0

\* nextListenerId after clearAll(): the function does not assign it
NextListenerIdAfterClearAll(next) == next

\* clearAll(), called between drains: listeners.clear(), eventQueue.clear()
ClearAll ==
    /\ pc = "idle"
    /\ listeners' = [t \in EventTypes |-> <<>>]
    /\ eventQueue' = <<>>
    /\ nextListenerId' = NextListenerIdAfterClearAll(nextListenerId)
    /\ unsubscribedPending' = {}
    /\ lastToken' = [op |-> "clearAll", type |-> "", token |-> Null,
                     before |-> listeners, earlier |-> lastToken.returned,
                     returned |-> lastToken.returned]
    /\ UNCHANGED <<queueCap, nextEvent, pc, emit, drain,
                   lastCall, emitSnapshot, emitLog, emitUnsub, delivered, expected,
                   queuedInDrain, nonTokenVars>>

\* unsubscribe(eventType, listenerId), called between drains
Unsubscribe(t, id) ==
    /\ pc = "idle"
    /\ listeners' = UnsubscribeResult(listeners, t, id)
    /\ unsubscribedPending' = unsubscribedPending \cup
            {<<id, t, eventQueue[i].data>> :
                i \in {j \in DOMAIN eventQueue :
                        eventQueue[j].type = t /\ id \in SeqToSet(listeners[t])}}
    /\ lastToken' = [op |-> "unsubscribe", type |-> t, token |-> id,
                     before |-> listeners, earlier |-> lastToken.returned,
                     returned |-> lastToken.returned]
    /\ UNCHANGED <<nextListenerId, eventQueue, queueCap, nextEvent, pc, emit, drain,
                   lastCall, emitSnapshot, emitLog, emitUnsub, delivered, expected,
                   queuedInDrain, nonTokenVars>>

\* queueEvent(eventType, data), called between drains
QueueEvent(t) ==
    /\ pc = "idle"
    /\ nextEvent <= MaxEvents
    /\ eventQueue' = Append(eventQueue, [type |-> t, data |-> nextEvent])
    /\ nextEvent' = nextEvent + 1
    /\ IF Len(eventQueue) = queueCap
       THEN queueCap' \in GrownCapacities(Len(eventQueue), queueCap)
       ELSE queueCap' = queueCap
    /\ UNCHANGED <<listeners, nextListenerId, pc, emit, drain, lastCall,
                   emitSnapshot, emitLog, emitUnsub, delivered, expected,
                   queuedInDrain,
                   unsubscribedPending, nonEvVars>>

\* the frame of emit(t, data): the loop's begin and end over listeners[t]
EmitFrame(t, data) ==
    [type |-> t, data |-> data, idx |-> 1, end |-> Len(listeners[t]),
     raw |-> listeners[t]]

\* emit(eventType) with the default null payload, called by a system
EmitBegin(t) ==
    /\ pc = "idle"
    /\ pc' = "emit"
    /\ emit' = EmitFrame(t, NullData)
    /\ lastCall' = "emit"
    /\ emitSnapshot' = listeners[t]
    /\ emitLog' = <<>>
    /\ emitUnsub' = FALSE
    /\ delivered' = <<>>
    /\ expected' = <<>>
    /\ queuedInDrain' = {}
    /\ UNCHANGED <<listeners, nextListenerId, eventQueue, queueCap, nextEvent, drain,
                   unsubscribedPending, nonEvVars>>

\* processEvents(): the loop's begin and end over eventQueue
ProcessBegin ==
    /\ pc = "idle"
    /\ pc' = "drain"
    /\ drain' = [idx |-> 1, end |-> Len(eventQueue), stale |-> FALSE,
                 snapshot |-> eventQueue, reentered |-> FALSE]
    /\ lastCall' = "processEvents"
    /\ emitSnapshot' = <<>>
    /\ emitLog' = <<>>
    /\ emitUnsub' = FALSE
    /\ delivered' = <<>>
    /\ expected' = <<>>
    /\ queuedInDrain' = {}
    /\ UNCHANGED <<listeners, nextListenerId, eventQueue, queueCap, nextEvent, emit,
                   unsubscribedPending, nonEvVars>>

\* the invocations an event owes: every listener registered for its type
\* when it is emitted, in registration order
Owed(ev) == [i \in 1..Len(listeners[ev.type]) |->
                <<listeners[ev.type][i], ev.type, ev.data>>]

\* one pass of the processEvents loop: emit(eventType, data.get()).  After
\* a reallocation of eventQueue the loop reads the freed buffer: it may
\* find the entry as it was, find a null payload, or fault.
DrainNext(outcome) ==
    /\ pc = "drain"
    /\ drain.idx <= drain.end
    /\ drain.stale \/ outcome = "intact"
    /\ LET ev == drain.snapshot[drain.idx]
           read == IF outcome = "null" THEN [ev EXCEPT !.data = NullData] ELSE ev
       IN
       /\ expected' = expected \o Owed(ev)
       /\ IF outcome = "fault"
          THEN /\ pc' = "crashed"
               /\ UNCHANGED <<emit, emitSnapshot, emitLog, emitUnsub>>
          ELSE /\ pc' = "drainEmit"
               /\ emit' = EmitFrame(read.type, read.data)
               /\ emitSnapshot' = listeners[read.type]
               /\ emitLog' = <<>>
               /\ emitUnsub' = FALSE
    /\ UNCHANGED <<listeners, nextListenerId, eventQueue, queueCap, nextEvent, drain,
                   lastCall, delivered, queuedInDrain,
                   unsubscribedPending, nonEvVars>>

\* the end of the processEvents loop: eventQueue.clear()
DrainFinish ==
    /\ pc = "drain"
    /\ drain.idx > drain.end
    /\ pc' = "idle"
    /\ eventQueue' = <<>>
    /\ drain' = NoDrain
    /\ unsubscribedPending' = {}
    /\ UNCHANGED <<listeners, nextListenerId, queueCap, nextEvent, emit, lastCall,
                   emitSnapshot, emitLog, emitUnsub, delivered, expected,
                   queuedInDrain, nonEvVars>>

\* the listener in the current slot runs and makes the call `c`
Invoke(c) ==
    /\ pc \in {"emit", "drainEmit"}
    /\ emit.idx <= emit.end
    /\ emit.idx <= Len(listeners[emit.type])
    /\ emitLog' = Append(emitLog, listeners[emit.type][emit.idx])
    /\ delivered' = Append(delivered,
                           <<listeners[emit.type][emit.idx], emit.type, emit.data>>)
    /\ CASE c.op = "none" ->
              /\ emit' = [emit EXCEPT !.idx = @ + 1]
              /\ UNCHANGED <<listeners, eventQueue, queueCap, nextEvent, drain,
                             emitUnsub, queuedInDrain>>
         [] c.op = "unsubscribe" ->
              LET ls == UnsubscribeResult(listeners, c.type, c.id) IN
              /\ c.id < nextListenerId
              /\ listeners' = ls
              /\ emit' = [emit EXCEPT !.idx = @ + 1,
                                      !.raw = RawAfterErase(@, ls[emit.type])]
              /\ emitUnsub' = TRUE
              /\ drain' = IF pc = "drainEmit"
                          THEN [drain EXCEPT !.reentered = TRUE] ELSE drain
              /\ UNCHANGED <<eventQueue, queueCap, nextEvent, queuedInDrain>>
         [] c.op = "queueEvent" ->
              /\ nextEvent <= MaxEvents
              /\ eventQueue' = Append(eventQueue, [type |-> c.type, data |-> nextEvent])
              /\ nextEvent' = nextEvent + 1
              /\ emit' = [emit EXCEPT !.idx = @ + 1]
              /\ IF Len(eventQueue) = queueCap
                 THEN /\ queueCap' \in GrownCapacities(Len(eventQueue), queueCap)
                      /\ drain' = IF pc = "drainEmit"
                                  THEN [drain EXCEPT !.stale = TRUE, !.reentered = TRUE]
                                  ELSE drain
                 ELSE /\ queueCap' = queueCap
                      /\ drain' = IF pc = "drainEmit"
                                  THEN [drain EXCEPT !.reentered = TRUE] ELSE drain
              /\ queuedInDrain' = IF pc = "drainEmit"
                                  THEN queuedInDrain \cup {nextEvent} ELSE queuedInDrain
              /\ UNCHANGED <<listeners, emitUnsub>>
    /\ UNCHANGED <<nextListenerId, pc, lastCall, emitSnapshot, expected,
                   unsubscribedPending, nonEvVars>>

\* the loop reaches a slot behind the vector's new end, left there by an
\* erase during the loop: the callback found in the slot runs once more
\* (outcome "call"), or the call faults (std::bad_function_call, or worse)
InvokeErased(outcome) ==
    /\ pc \in {"emit", "drainEmit"}
    /\ emit.idx <= emit.end
    /\ emit.idx > Len(listeners[emit.type])
    /\ IF outcome = "call"
       THEN /\ emitLog' = Append(emitLog, emit.raw[emit.idx])
            /\ delivered' = Append(delivered,
                                   <<emit.raw[emit.idx], emit.type, emit.data>>)
            /\ emit' = [emit EXCEPT !.idx = @ + 1]
            /\ UNCHANGED pc
       ELSE /\ pc' = "crashed"
            /\ UNCHANGED <<emit, emitLog, delivered>>
    /\ UNCHANGED <<listeners, nextListenerId, eventQueue, queueCap, nextEvent, drain,
                   lastCall, emitSnapshot, emitUnsub, expected, queuedInDrain,
                   unsubscribedPending, nonEvVars>>

\* the emit loop has reached its end: emit returns
EmitReturn ==
    /\ pc \in {"emit", "drainEmit"}
    /\ emit.idx > emit.end
    /\ pc' = IF pc = "emit" THEN "idle" ELSE "drain"
    /\ drain' = IF pc = "drainEmit" THEN [drain EXCEPT !.idx = @ + 1] ELSE drain
    /\ emit' = NoEmit
    /\ UNCHANGED <<listeners, nextListenerId, eventQueue, queueCap, nextEvent,
                   lastCall, emitSnapshot, emitLog, emitUnsub, delivered, expected,
                   queuedInDrain,
                   unsubscribedPending, nonEvVars>>

(***************************************************************************)
(* SpatialGrid                                                             *)
(***************************************************************************)

Positions == ((0 - MaxCoord)..MaxCoord) \X ((0 - MaxCoordY)..MaxCoordY)

\* Collider(shape, float radius): radius as given, size = 2 * radius
ColliderOfRadius(shape, r) ==
    [shape |-> shape, radius |-> r, size |-> <<2 * r, 2 * r>>]

\* Collider(shape, const Vector2f& size): radius 0, size as given
ColliderOfSize(shape, size) ==
    [shape |-> shape, radius |-> 0, size |-> size]

\* the colliders the game and a caller of the class can construct
Colliders ==
    {ColliderOfRadius("Circle", r) : r \in GridColliderSizes}
    \cup {ColliderOfSize("Rectangle", <<2 * h, 2 * h>>) : h \in GridColliderSizes}

\* static_cast<int>(a / b) of a float quotient: truncation toward zero
Trunc(a, b) == IF a >= 0 THEN a \div b ELSE 0 - ((0 - a) \div b)

\* getKey(x, y): x in the upper 32 bits, y in the lower 32: one key per cell
GetKey(x, y) == <<x, y>>

\* the cells insert and query walk for a centre and a radius
CellsAround(pos, radius) ==
    {GetKey(x, y) :
        x \in Trunc(pos[1] - radius, CellSize)..Trunc(pos[1] + radius, CellSize),
        y \in Trunc(pos[2] - radius, CellSize)..Trunc(pos[2] + radius, CellSize)}

\* insert: the cells of (position - radius) to (position + radius)
InsertCells(e) == CellsAround(e.pos, e.collider.radius)

\* grid[getKey(x, y)].push_back(entity) for every cell of the entity
InsertResult(g, id, e) ==
    [k \in DOMAIN g \cup InsertCells(e) |->
        IF k \in InsertCells(e)
        THEN Append(IF k \in DOMAIN g THEN g[k] ELSE <<>>, id)
        ELSE g[k]]

\* the concatenation of the walked cells, as query collects it cell by cell
\* (the order of the walk is lost in the sort that follows)
RECURSIVE Collect(_, _)
Collect(g, cells) ==
    IF cells = {} THEN <<>>
    ELSE LET k == CHOOSE c \in cells : TRUE IN
         (IF k \in DOMAIN g THEN g[k] ELSE <<>>) \o Collect(g, cells \ {k})

\* std::sort: ascending, every occurrence kept
RECURSIVE Sort(_)
Sort(s) ==
    IF s = <<>> THEN <<>>
    ELSE LET m == CHOOSE x \in SeqToSet(s) : \A y \in SeqToSet(s) : x <= y IN
         SelectSeq(s, LAMBDA x : x = m) \o Sort(SelectSeq(s, LAMBDA x : x # m))

\* a unique that removes nothing
MutUniqueKeeps(s) == s

\* erase(unique(begin, end), end): of each run of equal neighbours the
\* first is kept
RECURSIVE Unique(_)
Unique(s) ==
    IF Len(s) <= 1 THEN s
    ELSE IF s[1] = s[2] THEN Unique(Tail(s))
    ELSE <<s[1]>> \o Unique(Tail(s))

\* query(position, radius)
QueryResult(g, pos, radius) ==
    Unique(Sort(Collect(g, CellsAround(pos, radius))))

\* a clear that leaves the cells as they are
MutClearKeeps(g) == g

\* grid.clear()
ClearResult(g) == <<>>

NoQuery == [done |-> FALSE, pos |-> <<0, 0>>, radius |-> 0, result |-> <<>>]

SGInit ==
    /\ placed = <<>>
    /\ grid = <<>>
    /\ lastQuery = NoQuery

\* clear()
GridClear ==
    /\ grid' = ClearResult(grid)
    /\ placed' = <<>>
    /\ lastQuery' = NoQuery
    /\ UNCHANGED nonSgVars

\* insert(entity) of an entity with a Transform at pos and the collider c
GridInsert(pos, c) ==
    /\ Len(placed) < MaxGridEntities
    /\ placed' = Append(placed, [pos |-> pos, collider |-> c])
    /\ grid' = InsertResult(grid, Len(placed) + 1, [pos |-> pos, collider |-> c])
    /\ lastQuery' = NoQuery
    /\ UNCHANGED nonSgVars

\* query(pos, radius)
GridQuery(pos, radius) ==
    /\ lastQuery' = [done |-> TRUE, pos |-> pos, radius |-> radius,
                     result |-> QueryResult(grid, pos, radius)]
    /\ UNCHANGED <<placed, grid, nonSgVars>>

(***************************************************************************)
(* Collider.  layer and mask are the sets of the bits that are set; a      *)
(* length unit is 5 px.                                                    *)
(***************************************************************************)

\* a collider whose layer and mask a caller has assigned
WithLayers(c, layer, mask) ==
    [shape |-> c.shape, radius |-> c.radius, size |-> c.size,
     layer |-> layer, mask |-> mask]

\* the colliders of an intersects call: circles by radius, rectangles by
\* size, layer and mask any bits (the constructors set layer 1, mask all)
ProbeColliders ==
    {WithLayers(c, layer, mask) :
        c \in {ColliderOfRadius("Circle", r) : r \in GridColliderSizes}
              \cup {ColliderOfSize("Rectangle", <<2 * w, 2>>) : w \in GridColliderSizes},
        layer \in SUBSET LayerBits, mask \in SUBSET LayerBits}

\* Utils::Math::distanceSquared
DistanceSquared(p, q) ==
    (p[1] - q[1]) * (p[1] - q[1]) + (p[2] - q[2]) * (p[2] - q[2])

ProbePositions == (0..MaxProbeCoord) \X (0..MaxProbeCoordY)

Min(a, b) == IF a < b THEN a ELSE b

Max(a, b) == IF a > b THEN a ELSE b

\* sf::FloatRect(pos - size / 2.f, size)
RectAt(pos, size) ==
    [left |-> pos[1] - size[1] \div 2, top |-> pos[2] - size[2] \div 2,
     width |-> size[1], height |-> size[2]]

\* sf::Rect::findIntersection(...).has_value()
RectsIntersect(r, s) ==
    /\ Max(r.left, s.left) < Min(r.left + r.width, s.left + s.width)
    /\ Max(r.top, s.top) < Min(r.top + r.height, s.top + s.height)

\* Collider::circleRectIntersect
CircleRectIntersect(circlePos, circleRadius, rectPos, rectSize) ==
    LET rect == RectAt(rectPos, rectSize)
        closestX == Max(rect.left, Min(circlePos[1], rect.left + rect.width))
        closestY == Max(rect.top, Min(circlePos[2], rect.top + rect.height))
        distanceX == circlePos[1] - closestX
        distanceY == circlePos[2] - closestY
    IN distanceX * distanceX + distanceY * distanceY < circleRadius * circleRadius

\* the test of the shapes of Collider::intersects, after the layer check;
\* distance < radius + other->radius is compared in squares
ShapeTest(c, o, thisPos, otherPos) ==
    IF c.shape = "Circle" /\ o.shape = "Circle"
    THEN DistanceSquared(thisPos, otherPos) < (c.radius + o.radius) * (c.radius + o.radius)
    ELSE IF c.shape = "Rectangle" /\ o.shape = "Rectangle"
    THEN RectsIntersect(RectAt(thisPos, c.size), RectAt(otherPos, o.size))
    ELSE IF c.shape = "Circle"
    THEN CircleRectIntersect(thisPos, c.radius, otherPos, o.size)
    ELSE CircleRectIntersect(otherPos, o.radius, thisPos, c.size)

\* an intersects that takes circles that touch for circles that overlap
MutIntersectsTouching(c, o, thisPos, otherPos) ==
    IF (c.layer \cap o.mask) = {} /\ (o.layer \cap c.mask) = {} THEN FALSE
    ELSE IF c.shape = "Circle" /\ o.shape = "Circle"
    THEN DistanceSquared(thisPos, otherPos) <= (c.radius + o.radius) * (c.radius + o.radius)
    ELSE ShapeTest(c, o, thisPos, otherPos)

\* an intersects that wants both masks to admit the layer of the other
MutIntersectsBothMasks(c, o, thisPos, otherPos) ==
    IF (c.layer \cap o.mask) = {} \/ (o.layer \cap c.mask) = {} THEN FALSE
    ELSE ShapeTest(c, o, thisPos, otherPos)

\* Collider::intersects
ColliderIntersects(c, o, thisPos, otherPos) ==
    IF (c.layer \cap o.mask) = {} /\ (o.layer \cap c.mask) = {} THEN FALSE
    ELSE ShapeTest(c, o, thisPos, otherPos)

\* a collider as its constructor leaves it: layer(1), mask(0xFFFFFFFF)
Constructed(c) == WithLayers(c, {0}, LayerBits)

NoProbe == [done |-> FALSE]

COInit == probe = NoProbe

\* a call this->intersects(other, thisPos, otherPos)
IntersectsCall(c, o, thisPos, otherPos) ==
    /\ probe' = [done |-> TRUE, this |-> c, other |-> o, thisPos |-> thisPos,
                 otherPos |-> otherPos,
                 result |-> ColliderIntersects(c, o, thisPos, otherPos)]
    /\ UNCHANGED <<emVars, evVars, sgVars, csVars, tkVars, enVars, toVars, xpVars, hpVars, smVars>>

(***************************************************************************)
(* CollisionSystem                                                         *)
(*                                                                         *)
(* Every collider of the game is a circle.  Lengths are in units of 50 px, *)
(* not to scale; positions are kept on the x axis.  A projectile's damage  *)
(* is one hit.  The XP gem the death callback of an enemy spawns carries   *)
(* the tag "XPGem", which no pass of the collision system looks at; it is  *)
(* left out.                                                               *)
(***************************************************************************)

\* data.radius of the enemy types, Collider(Circle, 20.f) of the player,
\* Collider(Circle, 5.f) of a projectile
Radius == [Player |-> 1, Enemy |-> 2, PlayerProjectile |-> 1]

CollisionPositions == {<<x, 0>> : x \in CollisionCoords}

\* the components the factories attach
Outfit(e, kind) ==
    CASE kind = "Player" ->
            [e EXCEPT !.tag = "Player",
                      !.comps = @ \cup {"Transform", "Health", "Collider"}]
      [] kind = "Enemy" ->
            [e EXCEPT !.tag = "Enemy",
                      !.comps = @ \cup {"Transform", "Health", "Collider"}]
      [] kind = "PlayerProjectile" ->
            [e EXCEPT !.tag = "PlayerProjectile",
                      !.comps = @ \cup {"Transform", "Projectile", "Collider"},
                      !.expired = FALSE]

\* Transform(position), Collider(Circle, radius), Health(maxHealth),
\* Projectile(damage, piercing, lifetime, ownerTag) of a new entity
NewBody(kind, pos, piercing, maxHealth) ==
    [pos |-> pos,
     collider |-> ColliderOfRadius("Circle", Radius[kind]),
     health |-> IF kind = "PlayerProjectile" THEN 0 ELSE maxHealth,
     piercing |-> IF kind = "PlayerProjectile" THEN piercing ELSE 0,
     maxPiercing |-> IF kind = "PlayerProjectile" THEN piercing ELSE 0,
     hitEntities |-> <<>>,
     ownerTag |-> IF kind = "PlayerProjectile" THEN "Player" ELSE "",
     onCollisionEnter |-> FALSE]

\* the entities created so far with the tag
Created(ents, t) == {ents[i].id : i \in {j \in DOMAIN ents : ents[j].tag = t}}

NoPass == [done |-> FALSE, inserted |-> {}, returned |-> {}, tests |-> <<>>,
           damaged |-> <<>>, before |-> {}, playerDamage |-> 0, since |-> Null,
           narrow |-> <<>>, entered |-> <<>>]

CSInit ==
    /\ body = <<>>
    /\ playerDamageCooldown = 0
    /\ sincePlayerDamage = Null
    /\ everDamaged = {}
    /\ lastPass = NoPass

\* the factories of GameState, SpawnSystem and WeaponSystem: createEntity,
\* then the components and the tag
Spawn(kind, pos, piercing, maxHealth) ==
    LET r == CreateEntityResult(entities, maxEntities, nextId, tagCacheDirty)
        i == GetEntityIndex(r.entities, r.ret) IN
    /\ r.path = "fresh"
    /\ entities' = [r.entities EXCEPT ![i] = Outfit(@, kind)]
    /\ nextId' = r.nextId
    /\ tagCacheDirty' = r.dirty
    /\ ret' = r.ret
    /\ createPath' = r.path
    /\ lastUpdate' = NoUpdate
    /\ tickChanged' = TRUE
    /\ body' = [id \in DOMAIN body \cup {r.ret} |->
                    IF id = r.ret THEN NewBody(kind, pos, piercing, maxHealth)
                    ELSE body[id]]
    /\ lastPass' = NoPass
    /\ allocated' = [ever |-> allocated.ever \cup {r.ret},
                     sinceClear |-> allocated.sinceClear \cup {r.ret}]
    /\ UNCHANGED <<maxEntities, cleanupTimer, tagCache, lastDestroyed,
                   playerDamageCooldown, sincePlayerDamage, everDamaged,
                   evVars, sgVars, tkVars, enVars, coVars, toVars, xpVars, hpVars, smVars>>

\* an entity put together by a caller of the classes: createEntity, the tag,
\* addComponent for each of comps with the constructor arguments of bd
Assemble(tag, comps, bd) ==
    LET r == CreateEntityResult(entities, maxEntities, nextId, tagCacheDirty)
        i == GetEntityIndex(r.entities, r.ret) IN
    /\ r.path = "fresh"
    /\ entities' = [r.entities EXCEPT ![i].tag = tag, ![i].comps = @ \cup comps]
    /\ nextId' = r.nextId
    /\ tagCacheDirty' = r.dirty
    /\ ret' = r.ret
    /\ createPath' = r.path
    /\ lastUpdate' = NoUpdate
    /\ tickChanged' = TRUE
    /\ body' = [id \in DOMAIN body \cup {r.ret} |-> IF id = r.ret THEN bd ELSE body[id]]
    /\ lastPass' = NoPass
    /\ allocated' = [ever |-> allocated.ever \cup {r.ret},
                     sinceClear |-> allocated.sinceClear \cup {r.ret}]
    /\ UNCHANGED <<maxEntities, cleanupTimer, tagCache, lastDestroyed,
                   playerDamageCooldown, sincePlayerDamage, everDamaged,
                   evVars, sgVars, tkVars, enVars, coVars, toVars, xpVars, hpVars, smVars>>

\* Physics and AI move an active entity: transform->position changes
MoveEntity(id, pos) ==
    /\ id \in ActiveIds(entities)
    /\ body[id].pos # pos
    /\ body' = [body EXCEPT ![id].pos = pos]
    /\ lastPass' = NoPass
    /\ ret' = Null
    /\ createPath' = "none"
    /\ lastUpdate' = NoUpdate
    /\ UNCHANGED <<entities, nextId, maxEntities, cleanupTimer, tagCache,
                   tagCacheDirty, tickChanged, lastDestroyed, allocated,
                   playerDamageCooldown, sincePlayerDamage, everDamaged,
                   evVars, sgVars, tkVars, enVars, coVars, toVars, xpVars, hpVars, smVars>>

\* entity->setActive(false)
SetInactive(ents, id) ==
    [i \in DOMAIN ents |-> IF ents[i].id = id THEN [ents[i] EXCEPT !.active = FALSE]
                           ELSE ents[i]]

\* the entity with the id, through a pointer to it
EntityOf(ents, id) == ents[GetEntityIndex(ents, id)]

\* getEntitiesWithComponents<...>(): the active entities that have every
\* component of kinds, in storage order
RECURSIVE WithComponents(_, _)
WithComponents(ents, kinds) ==
    IF ents = <<>> THEN <<>>
    ELSE (IF IsActive(Head(ents)) /\ kinds \subseteq Head(ents).comps
          THEN <<Head(ents).id>> ELSE <<>>) \o WithComponents(Tail(ents), kinds)

\* colliderA->intersects(colliderB, transformA->position, transformB->position)
\* of two entities whose colliders are as constructed
Intersects(a, b) ==
    ColliderIntersects(Constructed(a.collider), Constructed(b.collider), a.pos, b.pos)

\* Health::takeDamage on the entity id: nothing when health is used up;
\* otherwise health drops, and at zero the death callback of an enemy
\* deactivates the entity (the player has no death callback)
TakeDamage(st, id) ==
    IF st.body[id].health <= 0 THEN st
    ELSE LET h == IF st.body[id].health > 1 THEN st.body[id].health - 1 ELSE 0 IN
         [st EXCEPT !.body[id].health = h,
                    !.ents = IF h <= 0 /\ EntityOf(st.ents, id).tag = "Enemy"
                             THEN SetInactive(@, id) ELSE @]

\* a canHit that forgets the hits of earlier ticks
MutCanHitAlways(b, id) == TRUE

\* Projectile::canHit
CanHit(b, id) == \A i \in DOMAIN b.hitEntities : b.hitEntities[i] # id

\* a recordHit that never deactivates the projectile
MutRecordHitKeepsActive(st, p, id) ==
    [st EXCEPT !.body[p].hitEntities = Append(@, id),
               !.body[p].piercing = @ - 1]

\* Projectile::recordHit on the projectile p
RecordHit(st, p, id) ==
    [st EXCEPT !.body[p].hitEntities = Append(@, id),
               !.body[p].piercing = @ - 1,
               !.ents = IF st.body[p].piercing - 1 <= 0 THEN SetInactive(@, p) ELSE @]

\* a component check that lets every target through
MutTargetNeedsNothing(e) == TRUE

\* targetTransform && targetCollider && targetHealth
HasTargetComponents(e) == {"Transform", "Collider", "Health"} \subseteq e.comps

\* a target tag that is "Enemy" whoever owns the projectile
MutTargetTagEnemy(ownerTag) == "Enemy"

\* targetTag of handleProjectileCollisions
TargetTag(ownerTag) == IF ownerTag = "Player" THEN "Enemy" ELSE "Player"

\* the loop over potentialTargets of one projectile, from the i-th on
RECURSIVE TargetLoop(_, _, _, _)
TargetLoop(st, p, targets, i) ==
    IF i > Len(targets) THEN st
    ELSE LET t == targets[i]
             e == EntityOf(st.ents, t)
             targetTag == TargetTag(st.body[p].ownerTag)
         IN
         IF e.tag # targetTag THEN TargetLoop(st, p, targets, i + 1)
         ELSE IF ~CanHit(st.body[p], t)
         THEN TargetLoop([st EXCEPT !.tests = Append(@,
                    [proj |-> p, target |-> t, canHit |-> FALSE, hit |-> FALSE,
                     left |-> st.body[p].piercing])], p, targets, i + 1)
         ELSE IF ~HasTargetComponents(e)
         THEN TargetLoop(st, p, targets, i + 1)
         ELSE IF Intersects(st.body[p], st.body[t])
         THEN LET hit == RecordHit(TakeDamage(st, t), p, t)
                  logged == [hit EXCEPT
                        !.damaged = Append(@, <<p, t>>),
                        !.tests = Append(@,
                            [proj |-> p, target |-> t, canHit |-> TRUE, hit |-> TRUE,
                             left |-> hit.body[p].piercing])]
              IN IF ~IsActive(EntityOf(logged.ents, p)) THEN logged
                 ELSE TargetLoop(logged, p, targets, i + 1)
         ELSE TargetLoop([st EXCEPT !.tests = Append(@,
                    [proj |-> p, target |-> t, canHit |-> TRUE, hit |-> FALSE,
                     left |-> st.body[p].piercing])], p, targets, i + 1)

\* playerPos of handleProjectileCollisions: the first cached "Player", if any
PlayerPosition(cache, bd) ==
    IF cache["Player"] # <<>> /\ cache["Player"][1] \in DOMAIN bd
    THEN bd[cache["Player"][1]].pos ELSE <<0, 0>>

\* handleProjectileCollisions: the loop over projectiles, from the i-th on
RECURSIVE ProjectileLoop(_, _, _, _, _)
ProjectileLoop(st, projectiles, i, g, playerPos) ==
    IF i > Len(projectiles) THEN st
    ELSE LET p == projectiles[i] IN
         IF DistanceSquared(st.body[p].pos, playerPos) > CullingRange * CullingRange
         THEN ProjectileLoop(st, projectiles, i + 1, g, playerPos)
         ELSE LET targets == QueryResult(g, st.body[p].pos,
                                         st.body[p].collider.radius + SearchMargin)
              IN ProjectileLoop(
                    TargetLoop([st EXCEPT !.returned = @ \cup SeqToSet(targets)],
                               p, targets, 1),
                    projectiles, i + 1, g, playerPos)

\* handleProjectileCollisions
HandleProjectileCollisions(st, g, cache) ==
    ProjectileLoop(st, WithComponents(st.ents, {"Transform", "Projectile", "Collider"}),
                   1, g, PlayerPosition(cache, st.body))

\* the first colliding pair of handlePlayerEnemyCollisions, players outer,
\* enemies inner, both from the tag cache; <<>> when there is none
FirstContact(st, players, enemies) ==
    LET hits == {pe \in (DOMAIN players) \X (DOMAIN enemies) :
                    /\ {"Transform", "Collider", "Health"}
                            \subseteq EntityOf(st.ents, players[pe[1]]).comps
                    /\ {"Transform", "Collider"}
                            \subseteq EntityOf(st.ents, enemies[pe[2]]).comps
                    /\ Intersects(st.body[players[pe[1]]], st.body[enemies[pe[2]]])}
    IN IF hits = {} THEN <<>>
       ELSE CHOOSE pe \in hits :
                \A o \in hits : pe[1] < o[1] \/ (pe[1] = o[1] /\ pe[2] <= o[2])

\* a player-enemy pass that ignores the cooldown
MutPlayerEnemyNoCooldown(st, cooldown, cache) ==
    LET pe == FirstContact(st, cache["Player"], cache["Enemy"]) IN
    IF pe = <<>> THEN [st |-> st, cooldown |-> cooldown, applied |-> 0]
    ELSE [st |-> TakeDamage(st, cache["Player"][pe[1]]),
          cooldown |-> PlayerDamageInterval, applied |-> 1]

\* handlePlayerEnemyCollisions
HandlePlayerEnemyCollisions(st, cooldown, cache) ==
    IF cooldown > 0 THEN [st |-> st, cooldown |-> cooldown, applied |-> 0]
    ELSE LET pe == FirstContact(st, cache["Player"], cache["Enemy"]) IN
         IF pe = <<>> THEN [st |-> st, cooldown |-> cooldown, applied |-> 0]
         ELSE [st |-> TakeDamage(st, cache["Player"][pe[1]]),
               cooldown |-> PlayerDamageInterval, applied |-> 1]

Sign(x) == IF x > 0 THEN 1 ELSE IF x < 0 THEN 0 - 1 ELSE 0

Abs(x) == IF x < 0 THEN 0 - x ELSE x

\* a push that moves each enemy by the whole overlap
MutPushByOverlap(st, a, b) ==
    LET dx == st.body[b].pos[1] - st.body[a].pos[1]
        overlap == (st.body[a].collider.radius + st.body[b].collider.radius) - Abs(dx)
        separation == Sign(dx) * overlap
    IN IF dx = 0 THEN st
       ELSE [st EXCEPT !.body[a].pos[1] = @ - separation,
                       !.body[b].pos[1] = @ + separation]

\* the push of two overlapping enemies a and b apart, along the x axis the
\* model keeps positions on: each moves by half the overlap, rounded toward
\* zero to stay on the model's lattice
PushApart(st, a, b) ==
    LET dx == st.body[b].pos[1] - st.body[a].pos[1]
        overlap == (st.body[a].collider.radius + st.body[b].collider.radius) - Abs(dx)
        separation == Sign(dx) * (overlap \div 2)
    IN IF dx = 0 THEN st
       ELSE [st EXCEPT !.body[a].pos[1] = @ - separation,
                       !.body[b].pos[1] = @ + separation]

\* the loop over the neighbours of the enemy a, from the i-th on
RECURSIVE NeighbourLoop(_, _, _, _)
NeighbourLoop(st, a, neighbours, i) ==
    IF i > Len(neighbours) THEN st
    ELSE LET b == neighbours[i]
             e == EntityOf(st.ents, b)
         IN IF \/ a = b
               \/ e.tag # "Enemy"
               \/ a > b
               \/ ~({"Transform", "Collider"} \subseteq e.comps)
               \/ ~Intersects(st.body[a], st.body[b])
            THEN NeighbourLoop(st, a, neighbours, i + 1)
            ELSE NeighbourLoop(PushApart(st, a, b), a, neighbours, i + 1)

\* handleEnemySeparation: the loop over the cached enemies, from the i-th
\* on; the search radius is radius * 2.5f
RECURSIVE SeparationLoop(_, _, _, _)
SeparationLoop(st, enemies, i, g) ==
    IF i > Len(enemies) THEN st
    ELSE LET a == enemies[i] IN
         IF ~({"Transform", "Collider"} \subseteq EntityOf(st.ents, a).comps)
         THEN SeparationLoop(st, enemies, i + 1, g)
         ELSE LET neighbours == QueryResult(g, st.body[a].pos,
                                            (5 * st.body[a].collider.radius) \div 2)
              IN SeparationLoop(
                    NeighbourLoop([st EXCEPT !.returned = @ \cup SeqToSet(neighbours)],
                                  a, neighbours, 1),
                    enemies, i + 1, g)

\* the grid rebuild of update: clear, then insert every collider
RECURSIVE InsertAll(_, _, _)
InsertAll(g, colliders, bd) ==
    IF colliders = <<>> THEN g
    ELSE InsertAll(InsertResult(g, Head(colliders), bd[Head(colliders)]),
                   Tail(colliders), bd)

\* the loop over nearby of the grid pass, from the j-th on: the pairs
\* handed to checkCollision, in order
RECURSIVE NearbyLoop(_, _, _)
NearbyLoop(a, nearby, j) ==
    IF j > Len(nearby) THEN <<>>
    ELSE (IF a = nearby[j] \/ a > nearby[j] THEN <<>> ELSE << <<a, nearby[j]>> >>)
         \o NearbyLoop(a, nearby, j + 1)

\* the loop over colliders of the grid pass, from the i-th on
RECURSIVE NarrowPhase(_, _, _, _)
NarrowPhase(g, colliders, bd, i) ==
    IF i > Len(colliders) THEN <<>>
    ELSE NearbyLoop(colliders[i],
                    QueryResult(g, bd[colliders[i]].pos,
                                bd[colliders[i]].collider.radius + SearchMargin), 1)
         \o NarrowPhase(g, colliders, bd, i + 1)

\* a checkCollision that calls back a alone
MutCallbackOfFirstOnly(pair, bd) ==
    IF ~Intersects(bd[pair[1]], bd[pair[2]]) THEN <<>>
    ELSE IF bd[pair[1]].onCollisionEnter THEN << <<pair[1], pair[2]>> >> ELSE <<>>

\* checkCollision(a, b): the onCollisionEnter calls it makes, as
\* <<entity of the collider, argument>>
CheckCollision(pair, bd) ==
    IF ~Intersects(bd[pair[1]], bd[pair[2]]) THEN <<>>
    ELSE (IF bd[pair[1]].onCollisionEnter THEN << <<pair[1], pair[2]>> >> ELSE <<>>)
         \o (IF bd[pair[2]].onCollisionEnter THEN << <<pair[2], pair[1]>> >> ELSE <<>>)

\* the onCollisionEnter calls of the pairs, in order.  A callback is any
\* function of the caller; the ones here change nothing the update reads.
RECURSIVE Entered(_, _)
Entered(pairs, bd) ==
    IF pairs = <<>> THEN <<>>
    ELSE CheckCollision(Head(pairs), bd) \o Entered(Tail(pairs), bd)

\* the grid pass of update: what the queries around the colliders return
GridPassReturned(g, colliders, bd) ==
    UNION {SeqToSet(QueryResult(g, bd[colliders[i]].pos,
                                bd[colliders[i]].collider.radius + SearchMargin)) :
            i \in DOMAIN colliders}

\* the moving parts of an update pass: storage, components, the log
PassState(ents, bd, returned) ==
    [ents |-> ents, body |-> bd, tests |-> <<>>, damaged |-> <<>>,
     returned |-> returned]

\* CollisionSystem::update(dt): the cooldown, the grid rebuild and grid
\* pass, then the three handlers in order
CollisionUpdate(dt) ==
    \E cooldown \in {IF playerDamageCooldown > 0 THEN playerDamageCooldown - dt
                     ELSE playerDamageCooldown} :
    \E colliders \in {WithComponents(entities, {"Transform", "Collider"})} :
    \E g \in {InsertAll(ClearResult(grid), colliders, body)} :
    \E st1 \in {HandleProjectileCollisions(
                    PassState(entities, body, GridPassReturned(g, colliders, body)),
                    g, tagCache)} :
    \E pe \in {HandlePlayerEnemyCollisions(st1, cooldown, tagCache)} :
    \E st2 \in {SeparationLoop(pe.st, tagCache["Enemy"], 1, g)} :
    \E since \in {IF sincePlayerDamage = Null THEN Null
                  ELSE IF sincePlayerDamage + dt > PlayerDamageInterval
                       THEN PlayerDamageInterval ELSE sincePlayerDamage + dt} :
    \E narrow \in {NarrowPhase(g, colliders, body, 1)} :
    /\ entities' = st2.ents
    /\ body' = st2.body
    /\ grid' = g
    /\ playerDamageCooldown' = pe.cooldown
    /\ sincePlayerDamage' = IF pe.applied = 1 THEN 0 ELSE since
    /\ everDamaged' = everDamaged \cup SeqToSet(st2.damaged)
    /\ lastPass' = [done |-> TRUE, inserted |-> SeqToSet(colliders),
                    returned |-> st2.returned, tests |-> st2.tests,
                    damaged |-> st2.damaged, before |-> everDamaged,
                    playerDamage |-> pe.applied, since |-> since,
                    narrow |-> narrow, entered |-> Entered(narrow, body)]
    /\ ret' = Null
    /\ createPath' = "none"
    /\ lastUpdate' = NoUpdate
    /\ UNCHANGED <<nextId, maxEntities, cleanupTimer, tagCache, tagCacheDirty,
                   tickChanged, lastDestroyed, allocated, placed, lastQuery,
                   evVars, tkVars,
                   enVars, coVars, toVars, xpVars, hpVars, smVars>>

(***************************************************************************)
(* GameState::update                                                       *)
(*                                                                         *)
(* One call is one game tick.  The listeners the game registers            *)
(* (GameState::enter, NotificationManager::initialize) spawn particles and *)
(* post notifications: they call neither queueEvent nor unsubscribe.       *)
(***************************************************************************)

\* a processEvents placed ahead of the XP, power-up and particle systems
MutDrainBeforeXP ==
    <<"entities", "weapon", "collision", "spawn", "processEvents", "xp",
      "powerup", "particle">>

\* the calls of update after its early returns, in the order of the code:
\* entityManager->update, the six systems, processEvents
TickOrder ==
    <<"entities", "weapon", "collision", "spawn", "xp", "powerup", "particle",
      "processEvents">>

\* the entity update and the systems
Systems == {"entities", "weapon", "collision", "spawn", "xp", "powerup", "particle"}

\* the events a call queues: Experience::addXP under the XP system queues
\* PlayerLevelUp, a collected power-up applies a buff, which queues
\* BuffApplied
QueuedBy(s) ==
    CASE s = "xp" -> {"PlayerLevelUp"}
      [] s = "powerup" -> {"BuffApplied"}
      [] OTHER -> {}

\* outside update
NoTick == [pos |-> 0, ran |-> {}, queued |-> <<>>]

TKInit == tick = NoTick

\* update is called.  skip: the player is dead or the level-up menu is
\* open, and update returns before it runs anything.
UpdateBegin(skip) ==
    /\ tick.pos = 0
    /\ pc = "idle"
    /\ tick' = [NoTick EXCEPT !.pos = IF skip THEN Len(TickOrder) + 1 ELSE 1]
    /\ lastCall' = "none"
    /\ UNCHANGED <<listeners, nextListenerId, eventQueue, queueCap, nextEvent, pc,
                   emit, drain, emitSnapshot, emitLog, emitUnsub, delivered,
                   expected, queuedInDrain, unsubscribedPending,
                   emVars, sgVars, csVars, enVars, coVars, toVars, xpVars, hpVars, smVars>>

\* the next call of update is the update of the entities or of a system
SystemIsNext ==
    /\ tick.pos \in DOMAIN TickOrder
    /\ TickOrder[tick.pos] \in Systems
    /\ pc = "idle"

\* the call runs and queues no event
RunSystem ==
    /\ SystemIsNext
    /\ tick' = [tick EXCEPT !.pos = @ + 1, !.ran = @ \cup {TickOrder[tick.pos]}]
    /\ UNCHANGED <<evVars, emVars, sgVars, csVars, enVars, coVars, toVars, xpVars, hpVars, smVars>>

\* the call runs and calls queueEvent(t, data)
RunSystemQueueing(t) ==
    /\ SystemIsNext
    /\ t \in QueuedBy(TickOrder[tick.pos])
    /\ nextEvent <= MaxEvents
    /\ eventQueue' = Append(eventQueue, [type |-> t, data |-> nextEvent])
    /\ nextEvent' = nextEvent + 1
    /\ IF Len(eventQueue) = queueCap
       THEN queueCap' \in GrownCapacities(Len(eventQueue), queueCap)
       ELSE queueCap' = queueCap
    /\ tick' = [tick EXCEPT !.pos = @ + 1,
                            !.ran = @ \cup {TickOrder[tick.pos]},
                            !.queued = Append(@, [type |-> t, data |-> nextEvent,
                                                  by |-> TickOrder[tick.pos]])]
    /\ UNCHANGED <<listeners, nextListenerId, pc, emit, drain, lastCall,
                   emitSnapshot, emitLog, emitUnsub, delivered, expected,
                   queuedInDrain, unsubscribedPending, emVars, sgVars, csVars, enVars, coVars, toVars, xpVars, hpVars, smVars>>

\* the next call of update is processEvents, not made yet
DrainIsNext ==
    /\ tick.pos \in DOMAIN TickOrder
    /\ TickOrder[tick.pos] = "processEvents"
    /\ lastCall # "processEvents"

\* processEvents has returned
AfterDrain ==
    /\ tick.pos \in DOMAIN TickOrder
    /\ TickOrder[tick.pos] = "processEvents"
    /\ lastCall = "processEvents"
    /\ pc = "idle"
    /\ tick' = [tick EXCEPT !.pos = @ + 1, !.ran = @ \cup {"processEvents"}]
    /\ lastCall' = "none"
    /\ UNCHANGED <<listeners, nextListenerId, eventQueue, queueCap, nextEvent, pc,
                   emit, drain, emitSnapshot, emitLog, emitUnsub, delivered,
                   expected, queuedInDrain, unsubscribedPending,
                   emVars, sgVars, csVars, enVars, coVars, toVars, xpVars, hpVars, smVars>>

\* update returns
UpdateReturn ==
    /\ tick.pos = Len(TickOrder) + 1
    /\ tick' = NoTick
    /\ UNCHANGED <<evVars, emVars, sgVars, csVars, enVars, coVars, toVars, xpVars, hpVars, smVars>>

(***************************************************************************)
(* Entity: the component map of one entity                                 *)
(*                                                                         *)
(* components is a std::unordered_map from the type of a component to the  *)
(* unique_ptr that owns it, kept here as its set of entries.  A Component  *)
(* object is known by the serial number of its construction.               *)
(***************************************************************************)

\* an addComponent that adds an entry and leaves the entry of the kind alone
MutAddKeepsEntry(comps, k, new) == comps \cup {<<k, new>>}

\* components[std::type_index(typeid(T))] = std::move(component): the entry
\* of the kind is created or its pointer overwritten
AddComponentResult(comps, k, new) ==
    {c \in comps : c[1] # k} \cup {<<k, new>>}

\* getComponent<T>(): the component of the entry found, nullptr if none
GetComponent(comps, k) ==
    IF \E c \in comps : c[1] = k
    THEN (CHOOSE c \in comps : c[1] = k)[2]
    ELSE Null

\* hasComponent<T>()
HasComponentOfKind(comps, k) == \E c \in comps : c[1] = k

NoAdd == [done |-> FALSE, kind |-> "", ret |-> Null, replaced |-> Null]

ENInit ==
    /\ components = {}
    /\ nextInstance = 1
    /\ onAttachCalls = [i \in 1..MaxInstances |-> 0]
    /\ onDetachCalls = [i \in 1..MaxInstances |-> 0]
    /\ lastAdd = NoAdd

\* addComponent<T>(args): construct, set owner, onAttach, store, return.
\* The unique_ptr assignment destroys a component stored before under the
\* kind; no hook runs on it.
AddComponent(k) ==
    /\ nextInstance <= MaxInstances
    /\ onAttachCalls' = [onAttachCalls EXCEPT ![nextInstance] = @ + 1]
    /\ components' = AddComponentResult(components, k, nextInstance)
    /\ nextInstance' = nextInstance + 1
    /\ lastAdd' = [done |-> TRUE, kind |-> k, ret |-> nextInstance,
                   replaced |-> GetComponent(components, k)]
    /\ UNCHANGED <<onDetachCalls, emVars, evVars, sgVars, csVars, tkVars, coVars, toVars, xpVars, hpVars, smVars>>

\* removeComponent<T>(): onDetach on the component found, then erase
RemoveComponent(k) ==
    /\ HasComponentOfKind(components, k)
    /\ onDetachCalls' = [onDetachCalls EXCEPT ![GetComponent(components, k)] = @ + 1]
    /\ components' = {c \in components : c[1] # k}
    /\ lastAdd' = NoAdd
    /\ UNCHANGED <<nextInstance, onAttachCalls, emVars, evVars, sgVars, csVars,
                   tkVars, coVars, toVars, xpVars, hpVars, smVars>>

\* removeComponent<T>() on an entity without a T: nothing happens
RemoveAbsent(k) ==
    /\ ~HasComponentOfKind(components, k)
    /\ lastAdd' = NoAdd
    /\ UNCHANGED <<components, nextInstance, onAttachCalls, onDetachCalls,
                   emVars, evVars, sgVars, csVars, tkVars, coVars, toVars, xpVars, hpVars, smVars>>

(***************************************************************************)
(* Grid specification                                                      *)
(***************************************************************************)

InitGrid == EMInit(DefaultMaxEntities) /\ EVInit /\ SGInit /\ CSInit /\ TKInit
        /\ ENInit /\ COInit /\ TOInit /\ XPInit /\ HPInit /\ SMInit

NextGrid ==
    \/ GridClear
    \/ \E pos \in Positions : \E c \in Colliders : GridInsert(pos, c)
    \/ \E pos \in Positions : \E radius \in 0..MaxQueryRadius : GridQuery(pos, radius)

SpecGrid == InitGrid /\ [][NextGrid]_vars

(***************************************************************************)
(* Event specification                                                     *)
(***************************************************************************)

InitEvents == EMInit(DefaultMaxEntities) /\ EVInit /\ SGInit /\ CSInit /\ TKInit
        /\ ENInit /\ COInit /\ TOInit /\ XPInit /\ HPInit /\ SMInit

NextEvents ==
    \/ \E t \in EventTypes : Subscribe(t)
    \/ \E t \in EventTypes : \E id \in 0..(MaxListeners - 1) :
            id < nextListenerId /\ Unsubscribe(t, id)
    \/ \E t \in EventTypes : QueueEvent(t)
    \/ \E t \in EventTypes : EmitBegin(t)
    \/ ProcessBegin
    \/ \E outcome \in {"intact", "null", "fault"} : DrainNext(outcome)
    \/ DrainFinish
    \/ \E c \in ListenerCalls : Invoke(c)
    \/ \E outcome \in {"call", "fault"} : InvokeErased(outcome)
    \/ EmitReturn

SpecEvents == InitEvents /\ [][NextEvents]_vars

(***************************************************************************)
(* Pooling specification: a small cap, every input                         *)
(***************************************************************************)

Init == EMInit(MaxEntitiesPool) /\ EVInit /\ SGInit /\ CSInit /\ TKInit
        /\ ENInit /\ COInit /\ TOInit /\ XPInit /\ HPInit /\ SMInit

Next ==
    \/ \E kind \in Kinds : CreateEntity(kind)
    \/ \E id \in 0..MaxEntitiesPool : DestroyEntity(id)
    \/ \E id \in Ids(entities) : Deactivate(id)
    \/ \E dt \in FrameTimes : \E expiring \in SUBSET LiveProjectiles(entities) :
            Update(dt, expiring)

Spec == Init /\ [][Next]_vars

(***************************************************************************)
(* Compaction specification: the manager as the game constructs it, with  *)
(* the default cap.  Callers spawn enemies only and keep at most           *)
(* MaxActiveCompact entities alive at a time, so that ten inactive         *)
(* entities are within reach of the search.                                *)
(***************************************************************************)

InitCompact == EMInit(DefaultMaxEntities) /\ EVInit /\ SGInit /\ CSInit /\ TKInit
        /\ ENInit /\ COInit /\ TOInit /\ XPInit /\ HPInit /\ SMInit

NextCompact ==
    \/ GetEntityCount(entities) < MaxActiveCompact /\ CreateEntity("Enemy")
    \/ \E id \in ActiveIds(entities) : DestroyEntity(id)
    \/ \E id \in ActiveIds(entities) : Deactivate(id)
    \/ \E dt \in FrameTimes : Update(dt, {})

SpecCompact == InitCompact /\ [][NextCompact]_vars

(***************************************************************************)
(* Lifetime specification: a manager with the small cap, where             *)
(* createEntity reactivates, or with the default cap, where update         *)
(* compacts; clear() at any time                                           *)
(***************************************************************************)

InitLifetime ==
    /\ \E max \in {MaxEntitiesPool, DefaultMaxEntities} : EMInit(max)
    /\ EVInit /\ SGInit /\ CSInit /\ TKInit
        /\ ENInit /\ COInit /\ TOInit /\ XPInit /\ HPInit /\ SMInit

NextLifetime ==
    \/ maxEntities = MaxEntitiesPool /\ Next
    \/ maxEntities = DefaultMaxEntities /\ NextCompact
    \/ Clear

SpecLifetime == InitLifetime /\ [][NextLifetime]_vars

(***************************************************************************)
(* Collision specification: the player, enemies and projectiles of the     *)
(* player's weapon, moved by physics between the updates.  Positions are   *)
(* relative to the player, who stands at the origin.  The weapon fires     *)
(* from where the player stands, and only when findNearestTarget finds a   *)
(* cached enemy.                                                           *)
(***************************************************************************)

InitCollision == EMInit(DefaultMaxEntities) /\ EVInit /\ SGInit /\ CSInit /\ TKInit
        /\ ENInit /\ COInit /\ TOInit /\ XPInit /\ HPInit /\ SMInit

NextCollision ==
    \/ Created(entities, "Player") = {} /\ Spawn("Player", <<0, 0>>, 0, PlayerMaxHealth)
    \/ \E pos \in CollisionPositions : \E maxHealth \in 1..EnemyMaxHealth :
            /\ Created(entities, "Player") # {}
            /\ Cardinality(Created(entities, "Enemy")) < MaxEnemies
            /\ Spawn("Enemy", pos, 0, maxHealth)
    \/ \E piercing \in 1..MaxPiercing :
            /\ Created(entities, "Player") # {}
            /\ tagCache["Enemy"] # <<>>
            /\ Cardinality(Created(entities, "PlayerProjectile")) < MaxProjectiles
            /\ Spawn("PlayerProjectile", <<0, 0>>, piercing, 0)
    \/ \E id \in ActiveIds(entities) : \E pos \in CollisionPositions :
            EntityOf(entities, id).tag # "Player" /\ MoveEntity(id, pos)
    \/ Update(CleanupInterval, {})
    \/ \E dt \in FrameTimes : CollisionUpdate(dt)

SpecCollision == InitCollision /\ [][NextCollision]_vars

(***************************************************************************)
(* Tick specification: the calls of GameState::update, tick after tick;    *)
(* listeners are registered between ticks                                  *)
(***************************************************************************)

InitTick == EMInit(DefaultMaxEntities) /\ EVInit /\ SGInit /\ CSInit /\ TKInit
        /\ ENInit /\ COInit /\ TOInit /\ XPInit /\ HPInit /\ SMInit

NextTick ==
    \/ \E t \in EventTypes : tick.pos = 0 /\ Subscribe(t)
    \/ \E skip \in BOOLEAN : UpdateBegin(skip)
    \/ RunSystem
    \/ \E t \in EventTypes : RunSystemQueueing(t)
    \/ DrainIsNext /\ ProcessBegin
    \/ tick.pos # 0 /\ DrainNext("intact")
    \/ tick.pos # 0 /\ Invoke([op |-> "none"])
    \/ tick.pos # 0 /\ EmitReturn
    \/ tick.pos # 0 /\ DrainFinish
    \/ AfterDrain
    \/ UpdateReturn

SpecTick == InitTick /\ [][NextTick]_vars

(***************************************************************************)
(* Component specification: addComponent and removeComponent calls on one  *)
(* entity, in any order                                                    *)
(***************************************************************************)

InitComponents == EMInit(DefaultMaxEntities) /\ EVInit /\ SGInit /\ CSInit /\ TKInit
        /\ ENInit /\ COInit /\ TOInit /\ XPInit /\ HPInit /\ SMInit

NextComponents ==
    \/ \E k \in ComponentKinds : AddComponent(k)
    \/ \E k \in ComponentKinds : RemoveComponent(k)
    \/ \E k \in ComponentKinds : RemoveAbsent(k)

SpecComponents == InitComponents /\ [][NextComponents]_vars

(***************************************************************************)
(* Separation specification: enemies only, spawned and moved to places     *)
(* where their colliders overlap in part, and set inactive.                                 *)
(***************************************************************************)

\* x is an even number of units from every entity but id: the penetration of
\* two colliders so placed is even, and the half of it that the push moves
\* each by (a float in the source) is a whole number of units
HalvesExactly(id, x) ==
    \A i \in DOMAIN entities :
        entities[i].id # id => (body[entities[i].id].pos[1] - x) % 2 = 0

InitSeparation == EMInit(DefaultMaxEntities) /\ EVInit /\ SGInit /\ CSInit /\ TKInit
        /\ ENInit /\ COInit /\ TOInit /\ XPInit /\ HPInit /\ SMInit

NextSeparation ==
    \/ \E x \in SeparationCoords : \E maxHealth \in 1..EnemyMaxHealth :
            /\ Cardinality(Created(entities, "Enemy")) < MaxEnemies
            /\ HalvesExactly(Null, x)
            /\ Spawn("Enemy", <<x, 0>>, 0, maxHealth)
    \/ \E id \in ActiveIds(entities) : \E x \in SeparationCoords :
            /\ HalvesExactly(id, x)
            /\ MoveEntity(id, <<x, 0>>)
    \/ \E id \in ActiveIds(entities) : Deactivate(id)
    \/ Update(CleanupInterval, {})
    \/ \E dt \in FrameTimes : CollisionUpdate(dt)

SpecSeparation == InitSeparation /\ [][NextSeparation]_vars

(***************************************************************************)
(* Collider specification: two colliders, this one at the origin, and the  *)
(* call of intersects on them.                                             *)
(***************************************************************************)

InitCollider == EMInit(DefaultMaxEntities) /\ EVInit /\ SGInit /\ CSInit /\ TKInit
        /\ ENInit
        /\ \E c \in ProbeColliders : \E o \in ProbeColliders : \E q \in ProbePositions :
            probe = [done |-> FALSE, this |-> c, other |-> o, thisPos |-> <<0, 0>>,
                     otherPos |-> q]
        /\ TOInit /\ XPInit /\ HPInit /\ SMInit

NextCollider ==
    /\ ~probe.done
    /\ IntersectsCall(probe.this, probe.other, probe.thisPos, probe.otherPos)

SpecCollider == InitCollider /\ [][NextCollider]_vars

(***************************************************************************)
(* Token specification: subscribe, unsubscribe with any token, clearAll    *)
(***************************************************************************)

InitTokens == EMInit(DefaultMaxEntities) /\ EVInit /\ SGInit /\ CSInit /\ TKInit
        /\ ENInit /\ COInit /\ TOInit /\ XPInit /\ HPInit /\ SMInit

NextTokens ==
    \/ \E t \in EventTypes : nextListenerId < MaxTokens /\ SubscribeCall(t)
    \/ \E t \in EventTypes : \E id \in 0..MaxTokens : Unsubscribe(t, id)
    \/ ClearAll

SpecTokens == InitTokens /\ [][NextTokens]_vars

(***************************************************************************)
(* Projectile specification: one projectile of either owner and of any     *)
(* piercing from 0, among targets of both tags, complete or lacking a      *)
(* component, all within reach of each other.                              *)
(***************************************************************************)

TargetTags == {"Enemy", "Player"}

TargetComps == {"Transform", "Collider", "Health"}

\* component sets of a target: complete, or lacking one component
TargetOutfits == {TargetComps} \cup {TargetComps \ {k} : k \in {"Health", "Collider"}}

\* the components of a target: the radius of its tag, full health
TargetBody(tag) ==
    [pos |-> <<0, 0>>, collider |-> ColliderOfRadius("Circle", Radius[tag]),
     health |-> EnemyMaxHealth, piercing |-> 0, maxPiercing |-> 0,
     hitEntities |-> <<>>, ownerTag |-> "", onCollisionEnter |-> FALSE]

\* Projectile(damage, piercing, lifetime, ownerTag) with its transform and
\* collider
ProjectileBody(piercing, ownerTag) ==
    [pos |-> <<0, 0>>, collider |-> ColliderOfRadius("Circle", Radius["PlayerProjectile"]),
     health |-> 0, piercing |-> piercing, maxPiercing |-> piercing,
     hitEntities |-> <<>>, ownerTag |-> ownerTag, onCollisionEnter |-> FALSE]

Projectiles(ents) ==
    {ents[i].id : i \in {j \in DOMAIN ents : "Projectile" \in ents[j].comps}}

InitProjectiles == EMInit(DefaultMaxEntities) /\ EVInit /\ SGInit /\ CSInit /\ TKInit
        /\ ENInit /\ COInit /\ TOInit /\ XPInit /\ HPInit /\ SMInit

NextProjectiles ==
    \/ \E tag \in TargetTags : \E comps \in TargetOutfits :
            /\ Projectiles(entities) = {}
            /\ Len(entities) < MaxTargets
            /\ Assemble(tag, comps, TargetBody(tag))
    \/ \E piercing \in 0..MaxPiercing : \E ownerTag \in TargetTags :
            /\ Projectiles(entities) = {}
            /\ entities # <<>>
            /\ Assemble("PlayerProjectile", {"Transform", "Projectile", "Collider"},
                        ProjectileBody(piercing, ownerTag))
    \/ Update(CleanupInterval, {})
    \/ \E dt \in FrameTimes : CollisionUpdate(dt)

SpecProjectiles == InitProjectiles /\ [][NextProjectiles]_vars

(***************************************************************************)
(* Pair specification: entities with a transform and a collider, a circle  *)
(* or a rectangle, with or without an onCollisionEnter callback.           *)
(***************************************************************************)

\* a circle the size of an enemy, a rectangle five cells wide
PairColliders ==
    {ColliderOfRadius("Circle", Radius["Enemy"]),
     ColliderOfSize("Rectangle", <<5 * CellSize, CellSize>>)}

PairBody(pos, collider, callback) ==
    [pos |-> pos, collider |-> collider, health |-> 0, piercing |-> 0,
     maxPiercing |-> 0, hitEntities |-> <<>>, ownerTag |-> "",
     onCollisionEnter |-> callback]

InitPairs == EMInit(DefaultMaxEntities) /\ EVInit /\ SGInit /\ CSInit /\ TKInit
        /\ ENInit /\ COInit /\ TOInit /\ XPInit /\ HPInit /\ SMInit

NextPairs ==
    \/ \E pos \in CollisionPositions : \E c \in PairColliders : \E callback \in BOOLEAN :
            /\ Len(entities) < MaxPairEntities
            /\ Assemble("", {"Transform", "Collider"}, PairBody(pos, c, callback))
    \/ \E id \in ActiveIds(entities) : \E pos \in CollisionPositions :
            MoveEntity(id, pos)
    \/ \E dt \in FrameTimes : CollisionUpdate(dt)

SpecPairs == InitPairs /\ [][NextPairs]_vars

(***************************************************************************)
(* Claims about the EntityManager                                          *)
(***************************************************************************)

\* the ids of the active entities carrying tag t
ActiveTagged(ents, t) ==
    {ents[i].id : i \in {j \in DOMAIN ents : IsActive(ents[j]) /\ ents[j].tag = t}}

InactiveCount(ents) == Len(ents) - GetEntityCount(ents)

\* a createEntity call is the step being taken
CreateStep == createPath' # "none"

AllComponentQueries(ents) ==
    UNION {SeqToSet(GetEntitiesWithComponent(ents, k)) : k \in ComponentKinds}
    \cup UNION {SeqToSet(GetEntitiesWithComponents(ents, k1, k2)) :
                    k1 \in ComponentKinds, k2 \in ComponentKinds}

\* C1: when update has completed on a tick in which an entity was created
\* (allocated or reactivated) or destroyed, the tag cache holds, for every
\* tag, exactly the active entities carrying that tag.
C1_TagCacheExactAfterUpdate ==
    (lastUpdate.done /\ lastUpdate.afterChange) =>
        \A t \in Tags : SeqToSet(GetEntitiesByTag(t)) = ActiveTagged(entities, t)

\* C2: createEntity at the cap with no inactive entity returns null and
\* leaves storage (count, identities, active flags) and nextId unchanged.
C2_ExhaustedStep ==
    (CreateStep /\ Len(entities) >= maxEntities /\ InactiveIds(entities) = {}) =>
        /\ ret' = Null
        /\ entities' = entities
        /\ nextId' = nextId

C2_PoolExhaustedChangesNothing == [][C2_ExhaustedStep]_vars

C2_Witness ==
    /\ createPath = "exhausted"
    /\ ret = Null
    /\ Len(entities) = maxEntities
    /\ InactiveIds(entities) = {}

\* C3: createEntity at the cap with an inactive entity returns an entity
\* that was inactive before the call, identities stay as they were, the
\* active count grows by one and the total does not; no createEntity call
\* returns an entity that was active when it was called.
C3_ReuseStep ==
    /\ (CreateStep /\ Len(entities) >= maxEntities /\ InactiveIds(entities) # {}) =>
            /\ ret' \in InactiveIds(entities)
            /\ ret' \in ActiveIds(entities')
            /\ IdSeq(entities') = IdSeq(entities)
            /\ GetEntityCount(entities') = GetEntityCount(entities) + 1
            /\ GetTotalEntityCount(entities') = GetTotalEntityCount(entities)
    /\ CreateStep => ret' \notin ActiveIds(entities)

C3_ReuseReturnsInactive == [][C3_ReuseStep]_vars

C3_Witness ==
    /\ createPath = "reused"
    /\ ret \in ActiveIds(entities)
    /\ Len(entities) = maxEntities
    /\ GetEntityCount(entities) >= 2

C5_NoDanglingCacheEntry ==
    \A t \in Tags : SeqToSet(GetEntitiesByTag(t)) \subseteq Ids(entities)

C5_Witness ==
    /\ lastUpdate.done
    /\ lastUpdate.erased > 0
    /\ lastUpdate.erasedCached
    /\ \E t \in Tags : GetEntitiesByTag(t) # <<>>

\* C6 as claimed: an entity leaves storage only in a compaction pass that
\* finds more than 10 inactive entities, and a pass that finds 10 or fewer
\* leaves storage unchanged.
C6_ClaimedStep ==
    /\ Ids(entities) \subseteq Ids(entities')
        \/ (lastUpdate'.ran /\ InactiveCount(entities) > CleanupThreshold)
    /\ (lastUpdate'.ran /\ InactiveCount(entities) <= CleanupThreshold) =>
            IdSeq(entities') = IdSeq(entities)

C6_ErasedOnlyAboveTen == [][C6_ClaimedStep]_vars

\* storage holds the same entities in the same places after the step
SameIdentities ==
    /\ Len(entities') = Len(entities)
    /\ \A i \in DOMAIN entities : entities'[i].id = entities[i].id


\* C6 as amended: an entity leaves storage (and stops being returned by
\* getEntity) only in a compaction pass that finds at least 10 inactive
\* entities, and a pass that finds fewer than 10 leaves storage unchanged.
C6_AmendedStep ==
    /\ SameIdentities
        \/ (\A id \in Ids(entities) : GetEntity(entities', id) = id)
        \/ (lastUpdate'.ran /\ InactiveCount(entities) >= CleanupThreshold)
    /\ (lastUpdate'.ran /\ InactiveCount(entities) < CleanupThreshold) =>
            SameIdentities

C6_ErasedOnlyFromTen == [][C6_AmendedStep]_vars

C6_Witness ==
    /\ lastUpdate.ran
    /\ lastUpdate.erased = CleanupThreshold
    /\ Len(entities) >= 1

\* a compaction pass has run below the threshold and kept the inactive entities
C6_WitnessBelow ==
    /\ lastUpdate.ran
    /\ lastUpdate.erased = 0
    /\ InactiveCount(entities) = CleanupThreshold - 1

\* a createEntity call is allocating a new entity
FreshStep == CreateStep /\ createPath' = "fresh"

\* no two entities in storage share an id
UniqueIds ==
    \A i \in DOMAIN entities : \A j \in DOMAIN entities :
        i # j => entities[i].id # entities[j].id

\* C19: a freshly allocated entity receives an id greater than every id
\* allocated before it, and no two entities the manager owns share an id.
C19_FreshExceedsAllStep ==
    FreshStep => \A id \in allocated.ever : ret' > id

C19_IdsIncreaseAndAreUnique ==
    [][C19_FreshExceedsAllStep]_vars /\ []UniqueIds

\* what holds instead: a freshly allocated entity receives an id greater
\* than every id allocated since the last clear(), which starts the ids
\* over at 0; no two entities the manager owns share an id.
C19_FreshExceedsSinceClearStep ==
    FreshStep => \A id \in allocated.sinceClear : ret' > id

C19_IdsIncreaseBetweenClears ==
    [][C19_FreshExceedsSinceClearStep]_vars /\ []UniqueIds

\* after a clear(), a second entity has been allocated next to one of the
\* same manager, with ids that were in use before the clear()
C19_Witness ==
    /\ createPath = "fresh"
    /\ Cardinality(allocated.sinceClear) >= 2
    /\ allocated.ever # allocated.sinceClear
    /\ Len(entities) >= 2

\* C20: on a tick during which no entity was created, destroyed or
\* compacted, update leaves the tag cache as it was: it does not rebuild it.
C20_QuietUpdateStep ==
    (lastUpdate'.done /\ ~tickChanged /\ lastUpdate'.erased = 0) =>
        tagCache' = tagCache

C20_QuietTickKeepsTagCache == [][C20_QuietUpdateStep]_vars

\* an update on a tick without creation, destruction or compaction has left
\* in the cache an entity that a system had deactivated directly: a rebuild
\* would have dropped it
C20_Witness ==
    /\ lastUpdate.done
    /\ ~lastUpdate.afterChange
    /\ lastUpdate.erased = 0
    /\ \E t \in Tags : \E i \in DOMAIN tagCache[t] :
            tagCache[t][i] \in InactiveIds(entities)

(***************************************************************************)
(* Claims about the event manager                                          *)
(***************************************************************************)

\* the payload serials held in a queue
QueuedSerials(q) == {q[i].data : i \in 1..Len(q)}

\* the emit loop in progress has reached its cached end
EmitLoopDone == pc \in {"emit", "drainEmit"} /\ emit.idx > emit.end

\* the program faulted inside an emit loop
EmitFaulted == pc = "crashed" /\ emit # NoEmit

\* a processEvents call returns in this step
DrainReturns == pc = "drain" /\ pc' = "idle"

C7_DrainStep ==
    /\ (pc = "idle" /\ Len(eventQueue') > Len(eventQueue)) => delivered' = delivered
    /\ DrainReturns => (delivered' = expected' /\ eventQueue' = <<>>)
    /\ lastCall = "processEvents" => pc' # "crashed"

\* C7: queueEvent outside a drain delivers nothing by itself; processEvents
\* returns, and when it does every queued event has been delivered exactly
\* once, in queue order, to the listeners registered for its type when it
\* was delivered, and the queue is empty.
C7_QueuedDeliveredOnceInOrder == [][C7_DrainStep]_vars

C7_LemmaStep ==
    (DrainReturns /\ ~drain.reentered) =>
        (delivered' = expected' /\ eventQueue' = <<>>)

\* the property of C7 restricted to drains in which no listener called
\* queueEvent or unsubscribe
C7_HoldsWithoutReentry == [][C7_LemmaStep]_vars

\* C8: when processEvents has returned, every event a listener queued during
\* that drain is still in the queue, waiting for the next processEvents call.
C8_QueuedInDrainKept ==
    (pc = "idle" /\ lastCall = "processEvents") =>
        queuedInDrain \subseteq QueuedSerials(eventQueue)

\* C9: an emit loop during which a listener called unsubscribe does not
\* fault, and when it ends it has invoked exactly the listeners that were
\* registered for the type when it started, each once, in their order.
C9_UnsubscribeLeavesLoopAlone ==
    /\ (EmitLoopDone /\ emitUnsub) => emitLog = emitSnapshot
    /\ emitUnsub => ~EmitFaulted

\* C10: emit returns, and when it does it has invoked the listeners
\* registered for the emitted type, each exactly once, in subscription
\* order, and no listener of another type.
C10_EmitInvokesRegisteredInOrder ==
    /\ (pc = "emit" /\ emit.idx > emit.end) => emitLog = emitSnapshot
    /\ lastCall = "emit" => pc # "crashed"

\* the property of C10 for emits during which no listener called unsubscribe
C10_HoldsWithoutUnsubscribe ==
    /\ (EmitLoopDone /\ ~emitUnsub) => emitLog = emitSnapshot
    /\ EmitFaulted => emitUnsub

\* C11: a listener removed from an event's type after the event was queued
\* and before processEvents began is not invoked for that event: while
\* processEvents runs, none of its invocations is of a listener for a type
\* it was removed from while an event of that type was waiting.
C11_UnsubscribedBeforeDrainNotInvoked ==
    (lastCall = "processEvents" /\ pc # "idle") =>
        \A i \in DOMAIN delivered :
            \A u \in unsubscribedPending :
                ~(delivered[i][1] = u[1] /\ delivered[i][2] = u[2])

\* the drain has delivered an event to a remaining listener after another
\* listener of its type was removed while it was queued
C11_Witness ==
    /\ lastCall = "processEvents"
    /\ pc = "drain"
    /\ \E u \in unsubscribedPending :
        \E i \in DOMAIN delivered :
            /\ delivered[i][2] = u[2]
            /\ delivered[i][3] = u[3]
            /\ delivered[i][1] # u[1]

(***************************************************************************)
(* Claims about the spatial grid                                           *)
(***************************************************************************)

\* the true bounding box of a placed entity: position plus/minus the radius
\* of a circle, plus/minus half the size of a rectangle
TrueBox(e) ==
    IF e.collider.shape = "Circle"
    THEN [minX |-> e.pos[1] - e.collider.radius, maxX |-> e.pos[1] + e.collider.radius,
          minY |-> e.pos[2] - e.collider.radius, maxY |-> e.pos[2] + e.collider.radius]
    ELSE [minX |-> e.pos[1] - e.collider.size[1] \div 2,
          maxX |-> e.pos[1] + e.collider.size[1] \div 2,
          minY |-> e.pos[2] - e.collider.size[2] \div 2,
          maxY |-> e.pos[2] + e.collider.size[2] \div 2]

\* the bounding box of the circle of a query
QueryBox(pos, radius) ==
    [minX |-> pos[1] - radius, maxX |-> pos[1] + radius,
     minY |-> pos[2] - radius, maxY |-> pos[2] + radius]

BoxesIntersect(a, b) ==
    /\ a.minX <= b.maxX /\ b.minX <= a.maxX
    /\ a.minY <= b.maxY /\ b.minY <= a.maxY

\* the placed entities of the given shapes that the last query had to return
Owing(shapes) ==
    {i \in DOMAIN placed :
        /\ placed[i].collider.shape \in shapes
        /\ BoxesIntersect(TrueBox(placed[i]), QueryBox(lastQuery.pos, lastQuery.radius))}

\* C12: a query returns every entity inserted since the last clear whose
\* true bounding box intersects the bounding box of the query circle.
C12_QueryHasNoFalseNegative ==
    lastQuery.done => Owing({"Circle", "Rectangle"}) \subseteq SeqToSet(lastQuery.result)

\* the property of C12 for circle colliders
C12_HoldsForCircles ==
    lastQuery.done => Owing({"Circle"}) \subseteq SeqToSet(lastQuery.result)

\* a query at negative coordinates returns a circle it owes
C12_WitnessCircles ==
    /\ lastQuery.done
    /\ lastQuery.pos[1] < 0
    /\ \E i \in Owing({"Circle"}) : placed[i].pos[1] < 0 /\ placed[i].pos # lastQuery.pos

\* the queried cells that hold the entity id
CellsHolding(id) ==
    {k \in CellsAround(lastQuery.pos, lastQuery.radius) \cap DOMAIN grid :
        id \in SeqToSet(grid[k])}

C13_NoTargetHitTwice ==
    /\ \A pt \in everDamaged : ~CanHit(body[pt[1]], pt[2])
    /\ lastPass.done =>
        \A i \in DOMAIN lastPass.damaged :
            /\ lastPass.damaged[i] \notin lastPass.before
            /\ \A j \in DOMAIN lastPass.damaged :
                    j # i => lastPass.damaged[j] # lastPass.damaged[i]

\* a projectile that survived a hit meets the same target, still alive and
\* still overlapping, on a later tick and is refused
C13_Witness ==
    /\ lastPass.done
    /\ \E i \in DOMAIN lastPass.tests :
        /\ ~lastPass.tests[i].canHit
        /\ <<lastPass.tests[i].proj, lastPass.tests[i].target>> \in lastPass.before
        /\ Intersects(body[lastPass.tests[i].proj], body[lastPass.tests[i].target])
        /\ body[lastPass.tests[i].target].health > 0

\* the tests the last pass made for the projectile p after its i-th test
LaterTests(p, i) ==
    {j \in DOMAIN lastPass.tests : j > i /\ lastPass.tests[j].proj = p}

\* C14: a hit that brings the remaining piercing of a projectile to zero
\* deactivates the projectile and ends its target iteration for that tick;
\* so a projectile created with piercing = 1 is deactivated by its first
\* recorded hit and tests no further target in that tick.
C14_LastHitEndsProjectile ==
    /\ lastPass.done =>
        \A i \in DOMAIN lastPass.tests :
            (lastPass.tests[i].hit /\ lastPass.tests[i].left <= 0) =>
                /\ LaterTests(lastPass.tests[i].proj, i) = {}
                /\ ~IsActive(EntityOf(entities, lastPass.tests[i].proj))
    /\ \A id \in DOMAIN body :
        (body[id].maxPiercing = 1 /\ body[id].hitEntities # <<>>) =>
            /\ Len(body[id].hitEntities) = 1
            /\ ~IsActive(EntityOf(entities, id))

\* a projectile created with piercing = 1 overlapped two enemies of the
\* grid, hit one and never tested the other
C14_Witness ==
    /\ lastPass.done
    /\ \E i \in DOMAIN lastPass.tests : \E e \in lastPass.inserted :
        /\ lastPass.tests[i].hit
        /\ body[lastPass.tests[i].proj].maxPiercing = 1
        /\ e # lastPass.tests[i].target
        /\ EntityOf(entities, e).tag = "Enemy"
        /\ Intersects(body[lastPass.tests[i].proj], body[e])
        /\ \A j \in DOMAIN lastPass.tests : lastPass.tests[j].target # e

\* the cached enemies whose collider overlaps the collider of a cached player
OverlappingEnemies ==
    {e \in SeqToSet(tagCache["Enemy"]) :
        \E p \in SeqToSet(tagCache["Player"]) : Intersects(body[p], body[e])}

\* C15: the player-enemy pass applies damage to the player at most once in a
\* tick, however many enemies overlap the player, and after an application
\* not again before playerDamageInterval of simulated time has gone by.
C15_OneDamagePerCooldownWindow ==
    lastPass.done =>
        /\ lastPass.playerDamage <= 1
        /\ lastPass.playerDamage = 1 =>
                (lastPass.since = Null \/ lastPass.since >= PlayerDamageInterval)

\* a second application, a full window after the first, on a tick when two
\* enemies overlap the player
C15_Witness ==
    /\ lastPass.done
    /\ lastPass.playerDamage = 1
    /\ lastPass.since = PlayerDamageInterval
    /\ Cardinality(OverlappingEnemies) >= 2

\* the step being taken is a CollisionSystem::update
CollisionStep == lastPass'.done /\ ~lastUpdate'.done /\ lastPass' # lastPass

\* C17: every CollisionSystem::update leaves the grid rebuilt from exactly
\* the entities that are active and carry a Transform and a Collider when it
\* starts, and the queries of the update return none but these: no entry of
\* an earlier tick.
C17_RebuildStep ==
    CollisionStep =>
        /\ grid' = InsertAll(<<>>, WithComponents(entities, {"Transform", "Collider"}),
                             body)
        /\ lastPass'.returned
                \subseteq SeqToSet(WithComponents(entities, {"Transform", "Collider"}))

C17_GridRebuiltEveryUpdate == [][C17_RebuildStep]_vars

\* an enemy that an earlier update had in the grid, and killed there, is
\* inactive now; a query of the last update walked the cells it was in
C17_Witness ==
    /\ lastPass.done
    /\ \E pt \in lastPass.before : \E q \in lastPass.inserted :
        /\ pt[2] \notin lastPass.inserted
        /\ ~IsActive(EntityOf(entities, pt[2]))
        /\ CellsAround(body[q].pos, body[q].collider.radius + SearchMargin)
                \cap InsertCells(body[pt[2]]) # {}

(***************************************************************************)
(* Claims about the game tick                                              *)
(***************************************************************************)

\* update has made every call of the tick
UpdateDone == tick.pos = Len(TickOrder) + 1 /\ tick.ran # {}

\* C16: in a tick processEvents runs after the entity update and after the
\* weapon, collision, spawn, XP, power-up and particle systems have run, and
\* an event one of them queued in the tick has been delivered to the
\* listeners of its type, and has left the queue, when the tick ends.
C16_DrainAfterSystems ==
    /\ pc # "idle" => Systems \subseteq tick.ran
    /\ UpdateDone =>
        /\ eventQueue = <<>>
        /\ \A i \in DOMAIN tick.queued :
            \A l \in SeqToSet(listeners[tick.queued[i].type]) :
                <<l, tick.queued[i].type, tick.queued[i].data>> \in SeqToSet(delivered)

\* a tick in which the XP system and the power-up system each queued an
\* event that a listener was registered for
C16_Witness ==
    /\ UpdateDone
    /\ \E i, j \in DOMAIN tick.queued :
        /\ tick.queued[i].by = "xp"
        /\ tick.queued[j].by = "powerup"
        /\ listeners[tick.queued[i].type] # <<>>
        /\ listeners[tick.queued[j].type] # <<>>
    /\ Len(delivered) >= 2

(***************************************************************************)
(* Claims about the components of an entity                                *)
(***************************************************************************)

\* C18: an entity holds at most one component per kind; addComponent<T> on
\* an entity that has a T replaces it, so that getComponent<T> returns the
\* new component; onAttach has run exactly once on the new component and
\* onDetach at most once on the replaced one.
C18_OneComponentPerKind ==
    /\ \A a \in components : \A b \in components : a[1] = b[1] => a = b
    /\ lastAdd.done =>
        /\ GetComponent(components, lastAdd.kind) = lastAdd.ret
        /\ onAttachCalls[lastAdd.ret] = 1
        /\ lastAdd.replaced # Null =>
            /\ lastAdd.replaced # lastAdd.ret
            /\ onDetachCalls[lastAdd.replaced] <= 1
            /\ \A c \in components : c[2] # lastAdd.replaced

\* addComponent has replaced a component while the entity holds another one
C18_Witness ==
    /\ lastAdd.done
    /\ lastAdd.replaced # Null
    /\ Cardinality(components) >= 2

\* the enemies the separation pass takes from the tag cache
CachedEnemies == SeqToSet(tagCache["Enemy"])

\* the entities the update inserts into the grid that carry the tag "Enemy"
GridEnemies ==
    {id \in SeqToSet(WithComponents(entities, {"Transform", "Collider"})) :
        EntityOf(entities, id).tag = "Enemy"}

\* the penetration of the colliders of a and b
Penetration(a, b) ==
    (body[a].collider.radius + body[b].collider.radius)
        - Abs(body[b].pos[1] - body[a].pos[1])

\* C22: two overlapping enemies whose centres are apart, no third enemy
\* about, their penetration an even number of units, end a separation
\* pass with their centres at the sum of their radii: each is displaced by
\* half the penetration, in opposite directions along the line that joins
\* the centres (radius 10 and centres 10 apart: displaced by 5, 20 apart;
\* here radius 2 and centres 2 apart: displaced by 1, 4 apart).
C22_SeparationStep ==
    CollisionStep =>
        \A a \in CachedEnemies : \A b \in GridEnemies :
            (a < b /\ Intersects(body[a], body[b])
                   /\ body[a].pos[1] < body[b].pos[1]
                   /\ CachedEnemies \cup GridEnemies = {a, b}
                   /\ Penetration(a, b) % 2 = 0) =>
                /\ body'[a].pos[1] = body[a].pos[1] - Penetration(a, b) \div 2
                /\ body'[b].pos[1] = body[b].pos[1] + Penetration(a, b) \div 2
                /\ body'[b].pos[1] - body'[a].pos[1]
                        = body[a].collider.radius + body[b].collider.radius

C22_SeparationHalvesPenetration == [][C22_SeparationStep]_vars

\* two enemies are a diameter apart, one step to each side of where a pass
\* found them half a diameter apart
C22_Witness ==
    /\ lastPass.done
    /\ \E a \in CachedEnemies : \E b \in CachedEnemies :
        /\ a < b
        /\ body[a].pos[1] = 0 - 1
        /\ body[b].pos[1] = 3
        /\ body[a].collider.radius = 2
        /\ body[b].collider.radius = 2

(***************************************************************************)
(* Claims about the collider                                               *)
(***************************************************************************)

\* the layer check of the call lets the shapes decide
LayersAdmit ==
    \/ (probe.this.layer \cap probe.other.mask) # {}
    \/ (probe.other.layer \cap probe.this.mask) # {}

TwoCircles == probe.this.shape = "Circle" /\ probe.other.shape = "Circle"

\* both circles of radius 10 (two units), the other at x units from this
CirclesOfTenAt(x) ==
    /\ probe.done /\ TwoCircles /\ LayersAdmit
    /\ probe.this.radius = 2 /\ probe.other.radius = 2
    /\ probe.thisPos = <<0, 0>> /\ probe.otherPos = <<x, 0>>

\* C23: two circles whose layers and masks allow it intersect exactly when
\* the distance of their centres is strictly less than the sum of their
\* radii: radius 10 at (0,0) and (15,0) intersect, at (25,0) they do not,
\* and at the distance of exactly 20 they do not.
C23_CirclesIntersectBelowRadiusSum ==
    /\ (probe.done /\ TwoCircles /\ LayersAdmit /\ probe.otherPos[2] = probe.thisPos[2]) =>
            (probe.result <=>
                Abs(probe.otherPos[1] - probe.thisPos[1])
                    < probe.this.radius + probe.other.radius)
    /\ CirclesOfTenAt(3) => probe.result
    /\ CirclesOfTenAt(5) => ~probe.result
    /\ CirclesOfTenAt(4) => ~probe.result

\* the circles of radius 10 were tested at the distance of exactly 20
C23_Witness == CirclesOfTenAt(4) /\ ~probe.result

\* the registrations of s other than the token id, in the order of s
RECURSIVE Without(_, _)
Without(s, id) ==
    IF s = <<>> THEN <<>>
    ELSE IF Head(s) = id THEN Without(Tail(s), id)
    ELSE <<Head(s)>> \o Without(Tail(s), id)

\* the call left the registrations of the types other than its own alone
OtherTypesKept ==
    \A u \in EventTypes \ {lastToken.type} : listeners[u] = lastToken.before[u]

\* C24: subscribe returns a token that differs from every token returned
\* before, across event types and after a clearAll; unsubscribe(type, token)
\* removes that registration alone and leaves the others in their order;
\* with a token that is not registered it removes nothing.
C24_TokensUniqueUnsubscribeExact ==
    /\ lastToken.op = "subscribe" =>
        /\ lastToken.token \notin lastToken.earlier
        /\ listeners[lastToken.type]
                = Append(lastToken.before[lastToken.type], lastToken.token)
        /\ OtherTypesKept
    /\ lastToken.op = "unsubscribe" =>
        /\ listeners[lastToken.type]
                = Without(lastToken.before[lastToken.type], lastToken.token)
        /\ OtherTypesKept
        /\ lastToken.token \in SeqToSet(lastToken.before[lastToken.type]) =>
                Len(listeners[lastToken.type])
                    = Len(lastToken.before[lastToken.type]) - 1
        /\ lastToken.token \notin SeqToSet(lastToken.before[lastToken.type]) =>
                listeners = lastToken.before

\* the second of three tokens of a type was unsubscribed
C24_Witness ==
    /\ lastToken.op = "unsubscribe"
    /\ Len(lastToken.before[lastToken.type]) = 3
    /\ lastToken.token = lastToken.before[lastToken.type][2]
    /\ Len(listeners[lastToken.type]) = 2

\* C26: intersects reports no overlap, whatever the shapes and positions,
\* when neither collider's mask has a bit in common with the layer of the
\* other; when the mask of at least one side has a bit of the other's layer,
\* the result is the result of the test of the shapes.
C26_LayerCheckThenShapeTest ==
    probe.done =>
        /\ ~LayersAdmit => ~probe.result
        /\ LayersAdmit =>
            (probe.result <=>
                ShapeTest(probe.this, probe.other, probe.thisPos, probe.otherPos))

\* a circle and a rectangle that overlap: no overlap is reported when no
\* mask admits the other's layer
C26_WitnessRejected ==
    /\ probe.done /\ ~LayersAdmit /\ ~probe.result
    /\ probe.this.shape = "Circle" /\ probe.other.shape = "Rectangle"
    /\ probe.this.layer # {} /\ probe.other.layer # {}
    /\ probe.this.mask # {} /\ probe.other.mask # {}
    /\ probe.otherPos = <<0, 0>>

\* a circle and a rectangle that overlap, only one mask admitting the layer
\* of the other: the overlap is reported
C26_Witness ==
    /\ probe.done /\ probe.result
    /\ probe.this.shape = "Circle" /\ probe.other.shape = "Rectangle"
    /\ (probe.this.layer \cap probe.other.mask) = {}
    /\ (probe.other.layer \cap probe.this.mask) # {}

(***************************************************************************)
(* Claims about projectiles                                                *)
(***************************************************************************)

\* the tag of the entities a projectile of the owner may damage
TagDamagedBy(ownerTag) == IF ownerTag = "Player" THEN "Enemy" ELSE "Player"

\* the projectile p damaged the entity t in the pass
DamagedInPass(pass, p, t) ==
    \E i \in DOMAIN pass.damaged : pass.damaged[i] = <<p, t>>

C25_DamageStep ==
    CollisionStep =>
        \A id \in DOMAIN body :
            body'[id].health < body[id].health =>
                \/ \E p \in DOMAIN body :
                    /\ DamagedInPass(lastPass', p, id)
                    /\ EntityOf(entities, id).tag = TagDamagedBy(body[p].ownerTag)
                \/ /\ EntityOf(entities, id).tag = "Player"
                   /\ lastPass'.playerDamage = 1

\* C25: a projectile whose owner tag is "Player" damages only entities
\* tagged "Enemy"; a projectile of any other owner tag damages only
\* entities tagged "Player".  (The other damage of an update is the contact
\* damage of the player.)
C25_ProjectileDamagesOtherSide ==
    /\ [](lastPass.done =>
            \A i \in DOMAIN lastPass.damaged :
                EntityOf(entities, lastPass.damaged[i][2]).tag
                    = TagDamagedBy(body[lastPass.damaged[i][1]].ownerTag))
    /\ [][C25_DamageStep]_vars

\* a projectile owned by an enemy damaged a player and left alone an enemy
\* that the grid returned to it
C25_Witness ==
    /\ lastPass.done
    /\ \E i \in DOMAIN lastPass.damaged :
        /\ body[lastPass.damaged[i][1]].ownerTag = "Enemy"
        /\ EntityOf(entities, lastPass.damaged[i][2]).tag = "Player"
        /\ \E e \in lastPass.returned :
            /\ EntityOf(entities, e).tag = "Enemy"
            /\ TargetComps \subseteq EntityOf(entities, e).comps
            /\ ~DamagedInPass(lastPass, lastPass.damaged[i][1], e)

(***************************************************************************)
(* Claims about the grid pass                                              *)
(***************************************************************************)

\* how often x occurs in the sequence s
Count(s, x) == Cardinality({i \in DOMAIN s : s[i] = x})

\* the entities the update takes as colliders
ColliderEntities == SeqToSet(WithComponents(entities, {"Transform", "Collider"}))

C27_PairStep ==
    CollisionStep =>
        \A a \in ColliderEntities : \A b \in ColliderEntities \ {a} :
            /\ Count(lastPass'.narrow, <<a, b>>) + Count(lastPass'.narrow, <<b, a>>) <= 1
            /\ (Intersects(body[a], body[b]) /\ body[a].onCollisionEnter) =>
                    Count(lastPass'.entered, <<a, b>>) = 1

\* C27: the grid pass hands each unordered pair of distinct collider
\* entities to the narrow phase at most once in an update, and in every
\* update in which the two overlap, the first as any later one, the
\* onCollisionEnter registered on either side is called exactly once with
\* the other side.
C27_PairTestedOnceCallbacksOnce == [][C27_PairStep]_vars

C27_CircleStep ==
    CollisionStep =>
        \A a \in ColliderEntities : \A b \in ColliderEntities \ {a} :
            /\ Count(lastPass'.narrow, <<a, b>>) + Count(lastPass'.narrow, <<b, a>>) <= 1
            /\ (/\ Intersects(body[a], body[b]) /\ body[a].onCollisionEnter
                /\ body[a].collider.shape = "Circle"
                /\ body[b].collider.shape = "Circle") =>
                    Count(lastPass'.entered, <<a, b>>) = 1

\* C27 for circles: what holds of pairs of circle colliders
C27_HoldsForCircles == [][C27_CircleStep]_vars

\* two updates in a row called back both sides of an overlapping pair of
\* circles
C27_WitnessCircles ==
    /\ lastPass.done
    /\ \E a \in DOMAIN body : \E b \in DOMAIN body :
        /\ a # b
        /\ body[a].collider.shape = "Circle" /\ body[b].collider.shape = "Circle"
        /\ Count(lastPass.entered, <<a, b>>) = 1
        /\ Count(lastPass.entered, <<b, a>>) = 1

\* the entities a projectile of the owner tag could damage, were they hit
CompleteTargets(ownerTag) ==
    {id \in ActiveIds(entities) :
        /\ EntityOf(entities, id).tag = TagDamagedBy(ownerTag)
        /\ TargetComps \subseteq EntityOf(entities, id).comps}

C28_SkipStep ==
    CollisionStep =>
        \A p \in SeqToSet(WithComponents(entities, {"Transform", "Projectile", "Collider"})) :
            /\ \A t \in Ids(entities) :
                ~(TargetComps \subseteq EntityOf(entities, t).comps) =>
                    /\ ~DamagedInPass(lastPass', p, t)
                    /\ body'[t].health = body[t].health
                    /\ t \notin SeqToSet(body'[p].hitEntities)
                    /\ \A i \in DOMAIN lastPass'.tests : lastPass'.tests[i].target # t
            /\ CompleteTargets(body[p].ownerTag) = {} =>
                    /\ body'[p].piercing = body[p].piercing
                    /\ body'[p].hitEntities = body[p].hitEntities
                    /\ IsActive(EntityOf(entities', p))

\* C28: the projectile pass skips a candidate target that lacks a
\* transform, a collider or a health component: it is not damaged, the hit
\* is not recorded, and when no other target is there the piercing left and
\* the active flag of the projectile are what they were.
C28_IncompleteTargetSkipped == [][C28_SkipStep]_vars

\* the grid returned a target of the projectile's target tag that has no
\* health component, and the projectile is as it was created
C28_Witness ==
    /\ lastPass.done
    /\ \E p \in Projectiles(entities) : \E t \in lastPass.returned :
        /\ EntityOf(entities, t).tag = TagDamagedBy(body[p].ownerTag)
        /\ "Health" \notin EntityOf(entities, t).comps
        /\ body[p].pos = body[t].pos
        /\ body[p].piercing = body[p].maxPiercing
        /\ body[p].hitEntities = <<>>
        /\ IsActive(EntityOf(entities, p))
        /\ body[t].health = EnemyMaxHealth

\* the distinct targets the projectile p has damaged so far
TargetsDamagedBy(p) == {pt[2] : pt \in {x \in everDamaged : x[1] = p}}

\* C29: over its lifetime a projectile created with piercing p, for every
\* p from 0 on, damages at most p distinct targets before it is removed.
C29_AtMostPiercingTargets ==
    \A p \in Projectiles(entities) :
        Cardinality(TargetsDamagedBy(p)) <= body[p].maxPiercing

\* C29 for a piercing of one or more
C29_HoldsForPositivePiercing ==
    \A p \in Projectiles(entities) :
        body[p].maxPiercing >= 1 =>
            Cardinality(TargetsDamagedBy(p)) <= body[p].maxPiercing

\* a projectile of piercing 2 among three targets damaged two and is gone
C29_WitnessPositive ==
    \E p \in Projectiles(entities) :
        /\ body[p].maxPiercing = 2
        /\ Cardinality(TargetsDamagedBy(p)) = 2
        /\ ~IsActive(EntityOf(entities, p))
        /\ Cardinality(CompleteTargets(body[p].ownerTag)) = 3

(***************************************************************************)
(* Claims about inactive entities in the collision passes                  *)
(***************************************************************************)

EnemyIds == {id \in Ids(entities) : EntityOf(entities, id).tag = "Enemy"}

PlayerIds == {id \in Ids(entities) : EntityOf(entities, id).tag = "Player"}

\* the enemy is inactive when the damage pass and the separation pass of
\* the step run: the projectile pass before them is the last to deactivate
InactiveInPasses(e) == ~IsActive(EntityOf(entities', e))

C30_DamageStep ==
    (CollisionStep /\ lastPass'.playerDamage = 1) =>
        \E p \in PlayerIds : \E e \in EnemyIds :
            /\ ~InactiveInPasses(e)
            /\ Intersects(body[p], body[e])

C30_SeparationStep ==
    CollisionStep =>
        \A e \in EnemyIds :
            /\ InactiveInPasses(e) => body'[e].pos = body[e].pos
            /\ body'[e].pos # body[e].pos =>
                \E f \in EnemyIds \ {e} :
                    ~InactiveInPasses(f) /\ Intersects(body[e], body[f])

\* C30: the player-enemy damage pass and the separation pass act on active
\* entities only: an enemy that is inactive, since this tick or an earlier
\* one, does not cause the damage of the player, is not displaced and
\* displaces no other enemy.
C30_InactiveEnemyOutOfPasses == [][C30_DamageStep /\ C30_SeparationStep]_vars

\* the separation half of C30
C30_InactiveEnemyNotDisplaced == [][C30_SeparationStep]_vars

(***************************************************************************)
(* Claims about the pool                                                   *)
(***************************************************************************)

\* the entity createEntity returned, once the caller of the kind has set
\* it up, is what the set-up makes of an entity without tag and components
StartsClean(kind) ==
    LET e == EntityOf(entities', ret') IN
    /\ e.comps = Configure(Entity(ret'), kind).comps
    /\ e.tag = Configure(Entity(ret'), kind).tag

C31_CreateStep ==
    \A kind \in Kinds : (CreateEntity(kind) /\ ret' # Null) => StartsClean(kind)

\* C31: every entity createEntity returns, allocated or taken from the
\* pool, starts clean: it carries no component and no tag of an earlier
\* life, so that after the set-up by its caller it has the components of
\* its new kind and no other.
C31_CreatedEntityStartsClean == [][C31_CreateStep]_vars

C31_FreshStep ==
    \A kind \in Kinds : (CreateEntity(kind) /\ createPath' = "fresh") => StartsClean(kind)

\* C31 for the entities createEntity allocates
C31_HoldsForFreshEntities == [][C31_FreshStep]_vars

\* createEntity allocated a projectile
C31_WitnessFresh ==
    /\ createPath = "fresh"
    /\ EntityOf(entities, ret).comps = {"Transform", "Projectile"}

\* C33: whenever the manager owns at least one inactive entity, createEntity
\* reactivates it instead of allocating a new one
C33_CreateStep ==
    \A kind \in Kinds :
        (CreateEntity(kind) /\ InactiveIds(entities) # {}) =>
            /\ createPath' = "reused"
            /\ ret' \in InactiveIds(entities)
            /\ Len(entities') = Len(entities)

C33_ReusesWheneverInactive == [][C33_CreateStep]_vars

\* the same for the calls made at the entity cap
C33_AtCapStep ==
    \A kind \in Kinds :
        (CreateEntity(kind) /\ InactiveIds(entities) # {}
            /\ Len(entities) >= maxEntities) =>
            /\ createPath' = "reused"
            /\ ret' \in InactiveIds(entities)
            /\ Len(entities') = Len(entities)

C33_HoldsAtCap == [][C33_AtCapStep]_vars

\* a call at the cap reactivated an entity
C33_WitnessAtCap ==
    /\ createPath = "reused"
    /\ Len(entities) = maxEntities

\* C34: in every state reached through createEntity, destroyEntity, update,
\* compaction and clear the manager owns at most maxEntities entities,
\* active and inactive together
C34_OwnedAtMostMaxEntities == Len(entities) <= maxEntities

\* the manager is full after a createEntity call it had to answer at the cap
C34_Witness ==
    /\ Len(entities) = maxEntities
    /\ createPath \in {"reused", "exhausted"}
    /\ nextId = maxEntities

\* C35: after clear() getEntitiesByTag returns no entity for any tag, even
\* before the next update
C35_ClearStep ==
    Clear => \A t \in Tags : tagCache'[t] = <<>>

C35_ClearEmptiesTagQueries == [][C35_ClearStep]_vars

\* clear() leaves no entity in storage, whatever the tag cache holds
C35_StorageStep ==
    Clear => entities' = <<>> /\ GetEntityCount(entities') = 0

C35_ClearEmptiesStorage == [][C35_StorageStep]_vars

\* clear() was called on a manager whose tag cache was not empty
C35_WitnessStaleCache ==
    /\ entities = <<>>
    /\ allocated.sinceClear = {}
    /\ allocated.ever # {}
    /\ \E t \in Tags : GetEntitiesByTag(t) # <<>>

\* C36: a compaction pass that erases removes every inactive entity and no
\* active one, and the survivors keep their identities and their relative
\* storage order
C36_CompactionStep ==
    \A dt \in FrameTimes :
        (Update(dt, {}) /\ lastUpdate'.erased > 0) =>
            /\ Ids(entities') = ActiveIds(entities)
            /\ Len(entities') = GetEntityCount(entities)
            /\ lastUpdate'.erased = Len(entities) - GetEntityCount(entities)
            /\ \A i \in DOMAIN entities' :
                    entities'[i] = EntityOf(entities, entities'[i].id)
            /\ \A i, j \in DOMAIN entities' :
                    i < j => GetEntityIndex(entities, entities'[i].id)
                                < GetEntityIndex(entities, entities'[j].id)

C36_CompactionRemovesExactlyInactive == [][C36_CompactionStep]_vars

\* a pass erased entities and left two survivors that were not adjacent
C36_Witness ==
    /\ lastUpdate.done
    /\ lastUpdate.erased >= CleanupThreshold
    /\ Len(entities) = 2
    /\ entities[2].id > entities[1].id + 1

(***************************************************************************)
(* XPSystem                                                                *)
(***************************************************************************)

\* the gems of the tag cache, in cache order
CachedGems == GetEntitiesByTag("XPGem")

\* the merge loop of spawnXPGem: the first cached gem with a Transform and an
\* XPPickup that lies within MERGE_RADIUS of the position, Null if none.
\* near: the gems within MERGE_RADIUS of the position.
MergeTarget(near) ==
    LET hit == {i \in DOMAIN CachedGems :
                    /\ CachedGems[i] \in Ids(entities)
                    /\ HasComponent(EntityOf(entities, CachedGems[i]), "Transform")
                    /\ HasComponent(EntityOf(entities, CachedGems[i]), "XPPickup")
                    /\ CachedGems[i] \in near}
    IN IF hit = {} THEN Null
       ELSE CachedGems[CHOOSE i \in hit : \A j \in hit : i <= j]

\* spawnXPGem(position, xpValue): merge into a nearby gem, else deactivate
\* the gem furthest from the player once MAX_XP_GEMS are cached, then
\* createEntity, the tag and the three components.  furthest: the cached gem
\* furthest from the player, Null if none has a Transform or every one is at
\* the player's position.
SpawnXPGem(xpValue, near, furthest) ==
    LET target == MergeTarget(near)
        capped == Len(CachedGems) >= MaxXPGems /\ furthest # Null
        ents == IF capped
                THEN [i \in DOMAIN entities |->
                        IF entities[i].id = furthest
                        THEN [entities[i] EXCEPT !.active = FALSE]
                        ELSE entities[i]]
                ELSE entities
        r == CreateEntityResult(ents, maxEntities, nextId, tagCacheDirty)
        i == GetEntityIndex(r.entities, r.ret)
    IN
    /\ r.path = "fresh" => nextId < MaxId
    /\ IF target # Null
       THEN /\ pickup' = [pickup EXCEPT ![target].value = @ + xpValue]
            /\ ret' = Null
            /\ createPath' = "none"
            /\ UNCHANGED <<entities, nextId, tagCacheDirty, tickChanged,
                           lastDestroyed, allocated, credits>>
       ELSE /\ entities' = IF r.ret = Null THEN r.entities
                           ELSE [r.entities EXCEPT ![i] = Configure(@, "XPGem")]
            /\ nextId' = r.nextId
            /\ tagCacheDirty' = r.dirty
            /\ ret' = r.ret
            /\ createPath' = r.path
            /\ tickChanged' = (tickChanged \/ r.ret # Null)
            /\ lastDestroyed' = IF r.ret = lastDestroyed THEN Null ELSE lastDestroyed
            /\ allocated' = IF r.path = "fresh"
                            THEN [ever |-> allocated.ever \cup {r.ret},
                                  sinceClear |-> allocated.sinceClear \cup {r.ret}]
                            ELSE allocated
            /\ pickup' = IF r.ret = Null THEN pickup
                         ELSE [id \in DOMAIN pickup \cup {r.ret} |->
                                IF id = r.ret
                                THEN [value |-> xpValue, readyForPickup |-> FALSE]
                                ELSE pickup[id]]
            /\ credits' = IF r.ret = Null THEN credits
                          ELSE [id \in DOMAIN credits \cup {r.ret} |->
                                IF id = r.ret THEN 0 ELSE credits[id]]
    /\ lastUpdate' = NoUpdate
    /\ UNCHANGED <<maxEntities, cleanupTimer, tagCache, experience, nonEmXpVars>>

\* the gems the loop of collectXPPickups credits: the cached gems that have an
\* XPPickup whose readyForPickup is set
Collected ==
    {id \in SeqToSet(CachedGems) \cap Ids(entities) :
        /\ HasComponent(EntityOf(entities, id), "XPPickup")
        /\ id \in DOMAIN pickup
        /\ pickup[id].readyForPickup}

\* the addXP calls of one collectXPPickups, summed along the cache
RECURSIVE XPOf(_)
XPOf(gems) ==
    IF gems = <<>> THEN 0
    ELSE (IF Head(gems) \in Collected THEN pickup[Head(gems)].value ELSE 0)
         + XPOf(Tail(gems))

\* XPSystem::update -> collectXPPickups: the player has its Transform and its
\* Experience and no XP buff; every cached gem that is ready is credited and
\* deactivated
XPUpdate ==
    /\ experience + XPOf(CachedGems) <= MaxExperience
    /\ experience' = experience + XPOf(CachedGems)
    /\ credits' = [id \in DOMAIN credits |->
                    credits[id]
                    + Cardinality({i \in DOMAIN CachedGems :
                                        CachedGems[i] = id /\ id \in Collected})]
    /\ entities' = [i \in DOMAIN entities |->
                        IF entities[i].id \in Collected
                        THEN [entities[i] EXCEPT !.active = FALSE]
                        ELSE entities[i]]
    /\ ret' = Null
    /\ createPath' = "none"
    /\ lastUpdate' = NoUpdate
    /\ UNCHANGED <<nextId, maxEntities, cleanupTimer, tagCache, tagCacheDirty,
                   tickChanged, lastDestroyed, allocated, pickup, nonEmXpVars>>

(***************************************************************************)
(* XP specification: gems are spawned, updated and collected while other   *)
(* entities are created and destroyed                                      *)
(***************************************************************************)

\* the entities that carry an XPPickup
Gems == DOMAIN pickup

InitXP == EMInit(DefaultMaxEntities) /\ EVInit /\ SGInit /\ CSInit /\ TKInit
        /\ ENInit /\ COInit /\ TOInit /\ XPInit /\ HPInit /\ SMInit

NextXP ==
    \/ \E xpValue \in XPValues : \E near \in SUBSET Gems :
       \E furthest \in SeqToSet(CachedGems) \cup {Null} :
            /\ Cardinality(Gems) < MaxGems \/ MergeTarget(near) # Null
            /\ MergeTarget(near) # Null =>
                    pickup[MergeTarget(near)].value + xpValue <= MaxGemValue
            /\ SpawnXPGem(xpValue, near, furthest)
    \/ \E dt \in FrameTimes : \E expiring \in SUBSET Gems :
       \E inRange \in SUBSET (Gems \ expiring) :
            UpdateAll(dt, expiring, inRange)
    \/ XPUpdate
    \/ /\ Len(entities) - Cardinality(Gems) < MaxBystanders
       /\ CreateEntity("Enemy")
    \/ \E id \in ActiveIds(entities) \ Gems : DestroyEntity(id)

SpecXP == InitXP /\ [][NextXP]_vars

(***************************************************************************)
(* Claims about XP gems                                                    *)
(***************************************************************************)

\* C32: each XP gem is credited at most once: a gem XPSystem collected and
\* deactivated is not credited again by a later XPSystem update, whatever
\* is created or destroyed in between
C32_GemCreditedAtMostOnce ==
    \A id \in DOMAIN credits : credits[id] <= 1

\* one collectXPPickups call credits no gem twice and credits exactly the
\* cached gems that are ready
C32_XPStep ==
    XPUpdate =>
        /\ \A id \in DOMAIN credits : credits'[id] - credits[id] \in {0, 1}
        /\ \A id \in DOMAIN credits :
                credits'[id] = credits[id] + 1 <=>
                    (id \in SeqToSet(CachedGems) /\ pickup[id].readyForPickup)

C32_OneCallCreditsOnce == [][C32_XPStep]_vars

\* a gem was collected and the tag cache was rebuilt after it
C32_WitnessCollected ==
    /\ \E id \in DOMAIN credits : credits[id] = 1 /\ id \notin SeqToSet(CachedGems)
    /\ experience > 0

(***************************************************************************)
(* Health                                                                  *)
(***************************************************************************)

\* isDead(): currentHealth <= 0.f, false for NaN
IsDead(h) == ~h.isNaN /\ h.currentHealth <= 0

\* isAlive(): currentHealth > 0.f, false for NaN
IsAlive(h) == ~h.isNaN /\ h.currentHealth > 0

\* takeDamage(damage): nothing when invulnerable or currentHealth <= 0;
\* else currentHealth = std::max(0.f, currentHealth - damage), which is 0.f
\* when the difference is NaN; died: onDeathCallback is invoked
TakeDamageResult(h, damage) ==
    IF h.invulnerable \/ IsDead(h)
    THEN [health |-> h, died |-> FALSE]
    ELSE LET cur == IF h.isNaN THEN 0 ELSE Max(0, h.currentHealth - damage) IN
         [health |-> [h EXCEPT !.currentHealth = cur, !.isNaN = FALSE],
          died |-> cur <= 0]

\* heal(amount): nothing when currentHealth <= 0; else
\* currentHealth = std::min(currentHealth + amount, maxHealth), which is NaN
\* when the sum is NaN
HealResult(h, amount) ==
    IF IsDead(h) \/ h.isNaN THEN h
    ELSE [h EXCEPT !.currentHealth = Min(h.currentHealth + amount, h.maxHealth)]

\* newMax * (currentHealth / maxHealth) is a whole number, or the quotient
\* is 0/0
ScalesExactly(h, newMax) ==
    IF h.maxHealth = 0 THEN h.currentHealth = 0
    ELSE (newMax * h.currentHealth) % h.maxHealth = 0

\* setMaxHealth(newMax): ratio = currentHealth / maxHealth, NaN for 0/0 and
\* for a NaN currentHealth; currentHealth = newMax * ratio
SetMaxHealthResult(h, newMax) ==
    IF h.isNaN \/ h.maxHealth = 0
    THEN [h EXCEPT !.maxHealth = newMax, !.currentHealth = 0, !.isNaN = TRUE]
    ELSE [h EXCEPT !.maxHealth = newMax,
                   !.currentHealth = (newMax * h.currentHealth) \div h.maxHealth]

\* the histories after a call that left the component as h
HealthHistories(h) ==
    /\ everDead' = (everDead \/ IsDead(h))
    /\ everNaN' = (everNaN \/ h.isNaN)

\* a takeDamage call on the component
TakeDamageCall(damage) ==
    LET r == TakeDamageResult(health, damage) IN
    /\ r.died => deathCalls < MaxDeathCalls
    /\ health' = r.health
    /\ deathCalls' = IF r.died THEN deathCalls + 1 ELSE deathCalls
    /\ HealthHistories(r.health)
    /\ UNCHANGED nonHpVars

Heal(amount) ==
    /\ health' = HealResult(health, amount)
    /\ HealthHistories(HealResult(health, amount))
    /\ UNCHANGED <<deathCalls, nonHpVars>>

SetMaxHealth(newMax) ==
    /\ ScalesExactly(health, newMax)
    /\ health' = SetMaxHealthResult(health, newMax)
    /\ HealthHistories(SetMaxHealthResult(health, newMax))
    /\ UNCHANGED <<deathCalls, nonHpVars>>

\* Player::update and Player::takeDamage write the invulnerable field
SetInvulnerable(flag) ==
    /\ health' = [health EXCEPT !.invulnerable = flag]
    /\ UNCHANGED <<deathCalls, everDead, everNaN, nonHpVars>>

(***************************************************************************)
(* Health specification: one Health component with its onDeathCallback     *)
(* set, called in any order                                                *)
(***************************************************************************)

InitHealth ==
    /\ EMInit(DefaultMaxEntities) /\ EVInit /\ SGInit /\ CSInit /\ TKInit
    /\ ENInit /\ COInit /\ TOInit /\ XPInit /\ SMInit
    /\ \E maxHealth \in 1..MaxHealthValue : health = HealthOf(maxHealth)
    /\ deathCalls = 0
    /\ everDead = FALSE
    /\ everNaN = FALSE

NextHealth ==
    \/ \E damage \in 0..MaxAmount : TakeDamageCall(damage)
    \/ \E amount \in 0..MaxAmount : Heal(amount)
    \/ \E newMax \in 0..MaxHealthValue : SetMaxHealth(newMax)
    \/ \E flag \in BOOLEAN : SetInvulnerable(flag)

SpecHealth == InitHealth /\ [][NextHealth]_vars

(***************************************************************************)
(* Claims about Health                                                     *)
(***************************************************************************)

\* C37: death is absorbing: once currentHealth reached 0 no later takeDamage,
\* heal or setMaxHealth makes it positive, and onDeathCallback is invoked at
\* most once per Health
C37_DeathAbsorbingCallbackOnce ==
    /\ everDead => ~IsAlive(health)
    /\ deathCalls <= 1

\* the first half by itself: a Health that was dead is never alive again
C37_DeadNeverAlive == everDead => ~IsAlive(health)

\* both halves for a Health whose currentHealth never became NaN
C37_HoldsWithoutNaN ==
    ~everNaN => (everDead => ~IsAlive(health)) /\ deathCalls <= 1

\* a dead Health was healed, damaged and rescaled after its callback ran
C37_WitnessDead ==
    /\ deathCalls = 1
    /\ everDead /\ ~everNaN
    /\ health.currentHealth = 0
    /\ health.maxHealth > 0
    /\ ~health.invulnerable

(***************************************************************************)
(* StateMachine                                                            *)
(***************************************************************************)

\* states.top()
Top(sts) == sts[Len(sts)]

\* states.pop()
Pop(sts) == SubSeq(sts, 1, Len(sts) - 1)

\* a lifecycle call on the State object s
Call(calls, s, what) == [calls EXCEPT ![s] = Append(@, what)]

\* pushState(state): exit() on the top if there is one, enter() on the new
\* state, push
PushStateResult(sts, calls, s) ==
    LET paused == IF sts # <<>> THEN Call(calls, Top(sts), "exit") ELSE calls IN
    [states |-> Append(sts, s), entered |-> Call(paused, s, "enter")]

\* a popState that does not resume the state below
MutPopNoResume(sts, calls) ==
    IF sts # <<>>
    THEN [states |-> Pop(sts), entered |-> Call(calls, Top(sts), "exit")]
    ELSE [states |-> sts, entered |-> calls]

\* popState(): exit() on the top, pop, enter() on the new top if there is one
PopStateResult(sts, calls) ==
    IF sts # <<>>
    THEN LET left == Call(calls, Top(sts), "exit")
             rest == Pop(sts) IN
         [states |-> rest,
          entered |-> IF rest # <<>> THEN Call(left, Top(rest), "enter") ELSE left]
    ELSE [states |-> sts, entered |-> calls]

\* changeState(state): exit() on the top and pop if there is one, enter() on
\* the new state, push
ChangeStateResult(sts, calls, s) ==
    LET left == IF sts # <<>> THEN Call(calls, Top(sts), "exit") ELSE calls
        rest == IF sts # <<>> THEN Pop(sts) ELSE sts IN
    [states |-> Append(rest, s), entered |-> Call(left, s, "enter")]

\* the State object a caller constructs: no lifecycle call made on it yet
Constructing == [s \in DOMAIN entered \cup {nextState} |->
                    IF s = nextState THEN <<>> ELSE entered[s]]

PushState ==
    LET r == PushStateResult(states, Constructing, nextState) IN
    /\ nextState < MaxStates
    /\ states' = r.states
    /\ entered' = r.entered
    /\ nextState' = nextState + 1
    /\ UNCHANGED <<lastDelegated, nonSmVars>>

PopState ==
    LET r == PopStateResult(states, entered) IN
    /\ states' = r.states
    /\ entered' = r.entered
    /\ UNCHANGED <<nextState, lastDelegated, nonSmVars>>

ChangeState ==
    LET r == ChangeStateResult(states, Constructing, nextState) IN
    /\ nextState < MaxStates
    /\ states' = r.states
    /\ entered' = r.entered
    /\ nextState' = nextState + 1
    /\ UNCHANGED <<lastDelegated, nonSmVars>>

\* update(dt), render(window), handleInput(event): the call is passed to
\* states.top() if the stack is not empty
Delegate(op) ==
    /\ lastDelegated' = [op |-> op, stack |-> states,
                         reached |-> IF states # <<>> THEN {Top(states)} ELSE {}]
    /\ UNCHANGED <<states, entered, nextState, nonSmVars>>

(***************************************************************************)
(* State machine specification: states are pushed, popped and changed, and *)
(* the game loop delegates to the machine in between                       *)
(***************************************************************************)

InitStates == EMInit(DefaultMaxEntities) /\ EVInit /\ SGInit /\ CSInit /\ TKInit
        /\ ENInit /\ COInit /\ TOInit /\ XPInit /\ HPInit /\ SMInit

NextStates ==
    \/ PushState
    \/ PopState
    \/ ChangeState
    \/ \E op \in {"update", "render", "handleInput"} : Delegate(op)

SpecStates == InitStates /\ [][NextStates]_vars

(***************************************************************************)
(* Claims about the StateMachine                                           *)
(***************************************************************************)

\* enter() was the last lifecycle call on the State object s
InEnteredCondition(s) ==
    entered[s] # <<>> /\ entered[s][Len(entered[s])] = "enter"

\* exit() was the last lifecycle call on the State object s
IsExited(s) ==
    entered[s] # <<>> /\ entered[s][Len(entered[s])] = "exit"

\* C38: after any sequence of pushState, popState and changeState exactly the
\* top state is entered and every state below it is exited; update, render
\* and handleInput reach the top state only, and nothing on an empty stack
C38_TopEnteredRestExited ==
    /\ \A s \in DOMAIN entered :
            InEnteredCondition(s) <=> (states # <<>> /\ s = Top(states))
    /\ \A i \in 1..(Len(states) - 1) : IsExited(states[i])
    /\ lastDelegated.op # "none" =>
            lastDelegated.reached = IF lastDelegated.stack = <<>> THEN {}
                                    ELSE {Top(lastDelegated.stack)}

\* a state was resumed by a popState over another state, and update reached it
C38_Witness ==
    /\ Len(states) = 2
    /\ Top(states) + 1 < nextState
    /\ Len(entered[Top(states)]) = 3
    /\ lastDelegated.op = "update"
    /\ lastDelegated.stack = states
    /\ lastDelegated.reached = {Top(states)}

====
